---------------------------- MODULE Spec2Model ----------------------------
(***************************************************************************)
(* Model of the freight reporting dashboards (custom_reports).  Every      *)
(* report reads the leg table otp_reports and derives tables from it.      *)
(* The reports are independent programs; the variable app says which one   *)
(* a behaviour runs, and there is one specification per report.            *)
(*                                                                         *)
(* Representation.                                                         *)
(*   - SQL NULL / pandas NaN / NaT of a text or date field is Null.        *)
(*   - A nullable number is a set with at most one element: {} is NULL.    *)
(*   - A table is a sequence of rows; a leg's warpId is its position.      *)
(*     SQL tables are bags, so a stored table is listed in one canonical   *)
(*     order of its rows (the queries modelled do not depend on storage    *)
(*     order; what they ORDER BY is modelled).                             *)
(*   - Text that the code inspects character by character (location        *)
(*     names) is a sequence of one-character strings.                      *)
(***************************************************************************)
EXTENDS Integers, Sequences, FiniteSets, TLC

VARIABLES
    app,            \* the report this behaviour runs
    pc,             \* position of the report script
    otp_reports,    \* the legs stored in the data source
    sidebar,        \* the widget values the current page run was made with
    df              \* the data the report's query and page script computed

vars == <<app, pc, otp_reports, sidebar, df>>

-----------------------------------------------------------------------------
(* Shared helpers *)

Null == "NULL"

\* A value that a report which does not use a variable leaves in it.
Unused == [unused |-> TRUE]

Min(a, b) == IF a <= b THEN a ELSE b
Max(a, b) == IF a >= b THEN a ELSE b

RECURSIVE SumOver(_, _, _)
\* sum of f[i] over the finite set S of indices
SumOver(S, f, acc) ==
    IF S = {} THEN acc
    ELSE LET i == CHOOSE x \in S : TRUE
         IN  SumOver(S \ {i}, f, acc + f[i])

\* COALESCE(x, d) of a nullable number
COALESCE(x, d) == IF x = {} THEN d ELSE CHOOSE v \in x : TRUE

-----------------------------------------------------------------------------
(* Profit by Lane: "src/Profit by Lane /app.py" and pages/1_Drill_Down.py *)

MaxLegs == 3

FTL == "Full Truckload"
LTL == "Less Than Truckload"

\* options of the "Shipment Type" selectbox
ShipmentTypeOptions == {"All", FTL, LTL}

\* CONCAT(startMarket, ' -> ', endMarket); CONCAT of a NULL is NULL
Lane(o) ==
    IF o.startMarket = Null \/ o.endMarket = Null THEN Null
    ELSE <<o.startMarket, o.endMarket>>

\* base_where of get_profit_by_lane_data, with no carrier, customer or lane
\* selected in the sidebar (the three optional IN (...) conjuncts are absent).
\* The date range is [StartDay, EndDay], days numbered within one month.
StartDay == 1
EndDay == 30

SecondsPerDay == 86400

\* STR_TO_DATE(pickWindowFrom, ...) >= start_date AND ... <= end_date: the
\* parsed timestamp (seconds, a nullable number) against midnight of the two
\* dates; a comparison with NULL is not true
InDateRange(stamp) ==
    /\ stamp # {}
    /\ \A t \in stamp : t >= StartDay * SecondsPerDay /\ t <= EndDay * SecondsPerDay

base_where(o) ==
    /\ o.shipmentStatus = "Complete"
    /\ o.startMarket # Null /\ o.startMarket # ""
    /\ o.endMarket # Null /\ o.endMarket # ""
    /\ InDateRange(o.pickWindowFrom)

\* base_where of get_order_details for drill_type = "Lane" and
\* selected_lane = "All": the lane of the row equals selected_value.
detail_base_where(o, selected_value) ==
    /\ o.shipmentStatus = "Complete"
    /\ InDateRange(o.pickWindowFrom)
    /\ Lane(o) # Null /\ Lane(o) = selected_value

\* The CTE order_row_counts over the legs `kept` (positions in the table) that
\* its WHERE keeps: one row per group, grouped by orderCode alone
\* (byType = FALSE) or by (orderCode, shipmentType) (byType = TRUE); each
\* group row carries COUNT( * ) as total_rows.
order_row_counts(table, kept, byType) ==
    LET key(i) == IF byType THEN <<table[i].orderCode, table[i].shipmentType>>
                  ELSE <<table[i].orderCode>>
    IN  { [key |-> k,
           orderCode |-> k[1],
           total_rows |-> Cardinality({i \in kept : key(i) = k})]
          : k \in {key(i) : i \in kept} }

\* JOIN order_row_counts orc ON o.orderCode = orc.orderCode
\* (an SQL equality: a NULL orderCode joins nothing)
JoinOn(o, orc) == o.orderCode # Null /\ orc.orderCode # Null /\ o.orderCode = orc.orderCode

\* The WHERE of the joined row (o, orc) in the "Less Than Truckload" branch
ltl_where(o, orc) ==
    /\ o.shipmentType = LTL
    /\ \/ (orc.total_rows > 1 /\ o.mainShipment = "NO")
       \/ orc.total_rows = 1

\* The WHERE of the joined row (o, orc) in the "All" branch
all_where(o, orc) ==
    \/ o.shipmentType = FTL
    \/ (o.shipmentType = LTL /\ orc.total_rows > 1 /\ o.mainShipment = "NO")
    \/ (o.shipmentType = LTL /\ orc.total_rows = 1)
    \/ (/\ o.shipmentType # Null
        /\ o.shipmentType \notin {FTL, LTL}
        /\ o.mainShipment = "YES")

\* The rows the final SELECT reads, as a bag over the legs of the table:
\* filtered_rows(...)[i] is the number of times leg i (warpId i) occurs in it.
\* `kept` are the legs that satisfy base_where.
filtered_rows(table, kept, mode) ==
    [i \in 1..Len(table) |->
        IF i \notin kept THEN 0
        ELSE IF mode = FTL
             THEN (IF table[i].shipmentType = FTL THEN 1 ELSE 0)
        ELSE IF mode = LTL
             THEN Cardinality(
                    {orc \in order_row_counts(table,
                                {j \in kept : table[j].shipmentType = LTL}, FALSE) :
                        JoinOn(table[i], orc) /\ ltl_where(table[i], orc)})
        ELSE Cardinality(
                    {orc \in order_row_counts(table, kept, TRUE) :
                        JoinOn(table[i], orc) /\ all_where(table[i], orc)})]

\* pickLocationName = dropLocationName as an SQL condition (NULL = x is not true)
SamePlace(o) ==
    /\ o.pickLocationName # Null /\ o.dropLocationName # Null
    /\ o.pickLocationName = o.dropLocationName

\* The final SELECT ... GROUP BY startMarket, endMarket over a bag of legs:
\* the set of aggregate rows (one per group).
lane_groups(table, bag) ==
    LET rows == {i \in 1..Len(table) : bag[i] > 0}
        grp(i) == <<table[i].startMarket, table[i].endMarket>>
        rev == [i \in rows |-> bag[i] * COALESCE(table[i].revenueAllocationNumber, 0)]
        cost == [i \in rows |-> bag[i] * COALESCE(table[i].costAllocationNumber, 0)]
        xd == [i \in rows |-> IF SamePlace(table[i]) THEN cost[i] ELSE 0]
    IN  { LET members == {i \in rows : grp(i) = g}
          IN  [lane |-> g,
               startMarket |-> g[1],
               endMarket |-> g[2],
               order_count |-> Cardinality({table[i].orderCode : i \in members} \ {Null}),
               total_revenue |-> SumOver(members, rev, 0),
               total_cost |-> SumOver(members, cost, 0),
               total_profit |-> SumOver(members, rev, 0) - SumOver(members, cost, 0),
               crossdock_cost |-> SumOver(members, xd, 0)]
          : g \in {grp(i) : i \in rows} }

\* every listing of the finite set S as a sequence without repetition
SeqsOfSet(S) ==
    {f \in [1..Cardinality(S) -> S] : \A i, j \in 1..Cardinality(S) : i # j => f[i] # f[j]}

\* ORDER BY total_profit DESC: the listings SQL may return (ties in any order)
OrderByProfitDesc(S) ==
    {f \in SeqsOfSet(S) : \A i \in 1..(Len(f) - 1) : f[i].total_profit >= f[i + 1].total_profit}

OrderByProfitAsc(S) ==
    {f \in SeqsOfSet(S) : \A i \in 1..(Len(f) - 1) : f[i].total_profit <= f[i + 1].total_profit}

\* get_profit_by_lane_data(start_date, end_date, [], [], [], shipment_type):
\* the set of data frames execute_query may return.
get_profit_by_lane_data(table, mode) ==
    LET kept == {i \in 1..Len(table) : base_where(table[i])}
        bag == filtered_rows(table, kept, mode)
    IN  { [filtered_rows |-> bag, rows |-> f] : f \in OrderByProfitDesc(lane_groups(table, bag)) }

\* The collation order of the texts ORDER BY compares in the model's inputs
\* (ascending; NULL sorts first in MySQL).
Collation == <<Null, "", "A1", "B2", "L1", "L2", "NO", "YES">>

TextRank(t) == CHOOSE k \in 1..Len(Collation) : Collation[k] = t

\* LIMIT 5000 of get_order_details
DetailLimit == 5000

\* one SELECT row of get_order_details for leg i of the table
DetailRow(table, i) ==
    LET o == table[i]
        rev == COALESCE(o.revenueAllocationNumber, 0)
        cost == COALESCE(o.costAllocationNumber, 0)
    IN  [OrderID |-> o.orderCode,
         WarpID |-> i,
         MainShipment |-> o.mainShipment,
         Lane |-> Lane(o),
         Revenue |-> rev,
         Cost |-> cost,
         Profit |-> rev - cost,
         CrossDock |-> IF SamePlace(o) THEN "Yes" ELSE "No",
         ShipmentType |-> o.shipmentType]

\* ORDER BY o.orderCode, o.mainShipment DESC, o.warpId
DetailBefore(table, i, j) ==
    LET a == table[i]
        b == table[j]
    IN  \/ TextRank(a.orderCode) < TextRank(b.orderCode)
        \/ /\ a.orderCode = b.orderCode
           /\ TextRank(a.mainShipment) > TextRank(b.mainShipment)
        \/ /\ a.orderCode = b.orderCode
           /\ a.mainShipment = b.mainShipment
           /\ i < j

RECURSIVE Expand(_, _)
\* the sequence `order` of legs with leg i repeated bag[i] times
Expand(order, bag) ==
    IF order = <<>> THEN <<>>
    ELSE [k \in 1..bag[Head(order)] |-> Head(order)] \o Expand(Tail(order), bag)

\* get_order_details(start_date, end_date, "Lane", selected_value, "All", shipment_type)
get_order_details(table, selected_value, mode) ==
    LET kept == {i \in 1..Len(table) : detail_base_where(table[i], selected_value)}
        bag == filtered_rows(table, kept, mode)
        rows == {i \in 1..Len(table) : bag[i] > 0}
        order == CHOOSE f \in SeqsOfSet(rows) :
                    \A k \in 1..(Len(f) - 1) : DetailBefore(table, f[k], f[k + 1])
        all == Expand(order, bag)
        cut == SubSeq(all, 1, Min(Len(all), DetailLimit))
    IN  [filtered_rows |-> bag, rows |-> [k \in 1..Len(cut) |-> DetailRow(table, cut[k])]]

-----------------------------------------------------------------------------
(* Binary floating point (IEEE 754 binary64, round to nearest even).  The   *)
(* numbers of numpy and of Python's float are these; a large natural number *)
(* is the sequence of its digits in base 2^14, the lowest first, without    *)
(* leading zeros (<<>> is 0).                                               *)

\* the base of the digits
Limb == 2 ^ 14

\* the number of binary digits of a digit
LimbBits == CHOOSE k \in 1..30 : 2 ^ k = Limb

\* F applied to the value of v, which is worked out once
With(v, F(_)) == CHOOSE r \in {F(x) : x \in {v}} : TRUE

With2(u, v, F(_, _)) == CHOOSE r \in {F(x, y) : x \in {u}, y \in {v}} : TRUE

Abs(n) == IF n < 0 THEN 0 - n ELSE n

RECURSIVE BTopIndex(_, _)
\* the index of the highest digit of a[1..i] that is not 0
BTopIndex(a, i) ==
    IF i = 0 THEN 0
    ELSE IF a[i] # 0 THEN i
    ELSE With(i - 1, LAMBDA j : BTopIndex(a, j))

\* a digit sequence without its leading zeros
BNorm(a) == With(a, LAMBDA v : SubSeq(v, 1, BTopIndex(v, Len(v))))

RECURSIVE BFromInt(_)
BFromInt(n) == IF n = 0 THEN <<>> ELSE <<n % Limb>> \o BFromInt(n \div Limb)

RECURSIVE BToIntFrom(_, _)
BToIntFrom(a, i) == IF i > Len(a) THEN 0 ELSE a[i] + Limb * BToIntFrom(a, i + 1)

BToInt(a) == With(a, LAMBDA v : BToIntFrom(v, 1))

BLimbAt(a, i) == IF i <= Len(a) THEN a[i] ELSE 0

RECURSIVE BAddFrom(_, _, _, _)
BAddFrom(a, b, i, carry) ==
    IF i > Len(a) /\ i > Len(b) THEN (IF carry = 0 THEN <<>> ELSE <<carry>>)
    ELSE With(BLimbAt(a, i) + BLimbAt(b, i) + carry,
              LAMBDA t : <<t % Limb>> \o BAddFrom(a, b, i + 1, t \div Limb))

BAdd(a, b) == With2(a, b, LAMBDA u, v : BAddFrom(u, v, 1, 0))

RECURSIVE BSubFrom(_, _, _, _)
BSubFrom(a, b, i, borrow) ==
    IF i > Len(a) THEN <<>>
    ELSE With(a[i] - BLimbAt(b, i) - borrow,
              LAMBDA t : IF t < 0 THEN <<t + Limb>> \o BSubFrom(a, b, i + 1, 1)
                         ELSE <<t>> \o BSubFrom(a, b, i + 1, 0))

\* a - b for a >= b
BSub(a, b) == With2(a, b, LAMBDA u, v : BNorm(BSubFrom(u, v, 1, 0)))

RECURSIVE BCmpAt(_, _, _)
BCmpAt(a, b, i) ==
    IF i = 0 THEN 0
    ELSE IF a[i] < b[i] THEN 0 - 1
    ELSE IF a[i] > b[i] THEN 1
    ELSE BCmpAt(a, b, i - 1)

BCmpV(a, b) ==
    IF Len(a) < Len(b) THEN 0 - 1
    ELSE IF Len(a) > Len(b) THEN 1
    ELSE BCmpAt(a, b, Len(a))

\* -1, 0 or 1 as a < b, a = b or a > b
BCmp(a, b) == With2(a, b, LAMBDA u, v : BCmpV(u, v))

RECURSIVE BMulSmallFrom(_, _, _, _)
BMulSmallFrom(a, k, i, carry) ==
    IF i > Len(a) THEN (IF carry = 0 THEN <<>> ELSE <<carry>>)
    ELSE With(a[i] * k + carry,
              LAMBDA t : <<t % Limb>> \o BMulSmallFrom(a, k, i + 1, t \div Limb))

\* a * k for 0 <= k <= Limb
BMulSmall(a, k) ==
    With2(a, k, LAMBDA u, v : IF v = 0 THEN <<>> ELSE BMulSmallFrom(u, v, 1, 0))

RECURSIVE BMulFrom(_, _, _)
\* a * b[i..Len(b)]
BMulFrom(a, b, i) ==
    IF i > Len(b) THEN <<>>
    ELSE With(BMulFrom(a, b, i + 1),
              LAMBDA rest : BAdd(BMulSmall(a, b[i]), IF rest = <<>> THEN <<>> ELSE <<0>> \o rest))

BMul(a, b) ==
    With2(a, b, LAMBDA u, v : IF u = <<>> \/ v = <<>> THEN <<>> ELSE BMulFrom(u, v, 1))

\* the number of binary digits of n < Limb
BitLenSmall(n) ==
    IF n = 0 THEN 0 ELSE CHOOSE k \in 1..LimbBits : 2 ^ (k - 1) <= n /\ n < 2 ^ k

BBitLenV(a) == IF a = <<>> THEN 0 ELSE LimbBits * (Len(a) - 1) + BitLenSmall(a[Len(a)])

\* the number of binary digits of a
BBitLen(a) == With(a, LAMBDA v : BBitLenV(v))

\* a * 2^s
BShl(a, s) ==
    With2(a, s, LAMBDA v, n :
        IF v = <<>> THEN v
        ELSE [i \in 1..(n \div LimbBits) |-> 0] \o BMulSmall(v, 2 ^ (n % LimbBits)))

BShrV(high, r) ==
    BNorm([i \in 1..Len(high) |->
              (high[i] \div 2 ^ r) + (BLimbAt(high, i + 1) % 2 ^ r) * 2 ^ (LimbBits - r)]
          \o <<>>)

\* a \div 2^s
BShr(a, s) ==
    With2(a, s, LAMBDA v, n :
        IF n \div LimbBits >= Len(v) THEN <<>>
        ELSE With2(SubSeq(v, n \div LimbBits + 1, Len(v)), n % LimbBits,
                   LAMBDA high, r : BShrV(high, r)))

\* a % 2^s = 0
BLowZero(a, s) ==
    With2(a, s, LAMBDA v, n :
        /\ \A i \in 1..(n \div LimbBits) : BLimbAt(v, i) = 0
        /\ BLimbAt(v, n \div LimbBits + 1) % 2 ^ (n % LimbBits) = 0)

\* the binary digit of weight 2^i
BBit(a, i) ==
    With2(a, i, LAMBDA v, n : (BLimbAt(v, n \div LimbBits + 1) \div 2 ^ (n % LimbBits)) % 2)

\* the number of zero digits at the low end of 0 < n < Limb
TrailingZerosSmall(n) == CHOOSE k \in 0..LimbBits : n % 2 ^ k = 0 /\ n % 2 ^ (k + 1) # 0

\* the number of zero digits at the low end of a # 0
BTrailingZeros(a) ==
    With(a, LAMBDA v :
        With(CHOOSE i \in 1..Len(v) : v[i] # 0 /\ \A j \in 1..(i - 1) : v[j] = 0,
             LAMBDA i : LimbBits * (i - 1) + TrailingZerosSmall(v[i])))

RECURSIVE BQuotientDigit(_, _, _)
\* the largest q <= guess with b * q <= rem
BQuotientDigit(rem, b, guess) ==
    IF BCmp(BMulSmall(b, guess), rem) <= 0 THEN guess
    ELSE With(guess - 1, LAMBDA g : BQuotientDigit(rem, b, g))

\* the quotient digit for the remainder cur and the divisor b whose highest
\* digit is at least Limb / 2
BDigit(cur, b) ==
    With((BLimbAt(cur, Len(b) + 1) * Limb + BLimbAt(cur, Len(b))) \div b[Len(b)],
         LAMBDA guess : BQuotientDigit(cur, b, IF guess >= Limb THEN Limb - 1 ELSE guess))

RECURSIVE BDivFrom(_, _, _, _)
\* long division of the digits a[1..i] put after the remainder rem, by b
BDivFrom(a, b, i, rem) ==
    IF i = 0 THEN [q |-> <<>>, r |-> rem]
    ELSE With(BNorm(<<a[i]>> \o rem), LAMBDA cur :
         With(BDigit(cur, b), LAMBDA digit :
         With(BDivFrom(a, b, i - 1, BSub(cur, BMulSmall(b, digit))), LAMBDA below :
              [q |-> Append(below.q, digit), r |-> below.r])))

\* a \div b and whether a % b # 0 (b # 0)
BDivMod(a, b) ==
    With(LimbBits - BitLenSmall(b[Len(b)]), LAMBDA s :
    With2(BShl(a, s), BShl(b, s), LAMBDA u, v :
    With(BDivFrom(u, v, Len(u), <<>>), LAMBDA d :
         [q |-> BNorm(d.q), inexact |-> d.r # <<>>])))

RECURSIVE BSqrtFrom(_, _)
\* Newton's iteration from an estimate x >= sqrt(a)
BSqrtFrom(a, x) ==
    With(BShr(BAdd(x, BDivMod(a, x).q), 1),
         LAMBDA y : IF BCmp(y, x) >= 0 THEN x ELSE BSqrtFrom(a, y))

\* the integer part of the square root of a
BSqrt(a) ==
    With(a, LAMBDA v :
        IF v = <<>> THEN v
        ELSE With(BShl(<<1>>, (BBitLen(v) + 1) \div 2), LAMBDA x : BSqrtFrom(v, x)))

\* a float64: (-1)^neg * m * 2^e with m odd, or zero (the exponent range of
\* binary64 is not reached by the numbers of these reports)
DMake(neg, m, e) ==
    With(m, LAMBDA v :
        IF v = <<>> THEN [cls |-> "float64", neg |-> FALSE, m |-> <<>>, e |-> 0]
        ELSE With(BTrailingZeros(v), LAMBDA z :
                 [cls |-> "float64", neg |-> neg, m |-> BShr(v, z), e |-> e + z]))

\* DRound for m of s + 53 binary digits, s > 0
DRoundV(neg, m, e, inexact, s) ==
    With(BShr(m, s), LAMBDA q :
        IF BBit(m, s - 1) = 1 /\ (inexact \/ ~BLowZero(m, s - 1) \/ BBit(q, 0) = 1)
        THEN DMake(neg, BAdd(q, <<1>>), e + s)
        ELSE DMake(neg, q, e + s))

\* the float nearest to (-1)^neg * (m + f) * 2^e, halves to even, where f is
\* 0, or when inexact some fraction 0 < f < 1 (m then has 55 digits or more)
DRound(neg, m, e, inexact) ==
    With2(m, e, LAMBDA v, x :
        With(BBitLen(v) - 53, LAMBDA s :
            IF s <= 0 THEN DMake(neg, v, x) ELSE DRoundV(neg, v, x, inexact, s)))

\* the float of an integer
DFromInt(n) == With(n, LAMBDA v : DMake(v < 0, BFromInt(Abs(v)), 0))

DIsZero(x) == x.m = <<>>

DNeg(x) == With(x, LAMBDA v : IF DIsZero(v) THEN v ELSE [v EXCEPT !.neg = ~@])

\* x * y
DMul(x, y) ==
    With2(x, y, LAMBDA u, v : DRound(u.neg # v.neg, BMul(u.m, v.m), u.e + v.e, FALSE))

\* x / y for x, y # 0: the quotient of the digits of x, shifted by k, by those
\* of y has 56 digits or more
DDivV(x, y, k) ==
    With(BDivMod(BShl(x.m, k), y.m),
         LAMBDA d : DRound(x.neg # y.neg, d.q, x.e - y.e - k, d.inexact))

\* x / y for y # 0
DDiv(x, y) ==
    With2(x, y, LAMBDA u, v :
        IF DIsZero(u) THEN u
        ELSE DDivV(u, v, IF 56 + BBitLen(v.m) > BBitLen(u.m)
                         THEN 56 + BBitLen(v.m) - BBitLen(u.m) ELSE 0))

\* the position above the highest binary digit of x # 0
DTop(x) == x.e + BBitLen(x.m)

\* (-1)^neg * mx * 2^e + (-1)^neg2 * my * 2^e, rounded
DAddAligned(neg, mx, neg2, my, e) ==
    IF neg = neg2 THEN DRound(neg, BAdd(mx, my), e, FALSE)
    ELSE IF BCmp(mx, my) >= 0 THEN DRound(neg, BSub(mx, my), e, FALSE)
    ELSE DRound(neg2, BSub(my, mx), e, FALSE)

DAddV(x, y) ==
    IF DIsZero(x) THEN y
    ELSE IF DIsZero(y) THEN x
    ELSE IF DTop(x) - DTop(y) > 64 THEN x
    ELSE IF DTop(y) - DTop(x) > 64 THEN y
    ELSE With(IF x.e < y.e THEN x.e ELSE y.e, LAMBDA e :
         With2(BShl(x.m, x.e - e), BShl(y.m, y.e - e), LAMBDA mx, my :
               DAddAligned(x.neg, mx, y.neg, my, e)))

\* x + y
DAdd(x, y) == With2(x, y, LAMBDA u, v : DAddV(u, v))

\* x - y
DSub(x, y) == DAdd(x, DNeg(y))

\* sqrt(x) for x > 0, with k binary digits added so that the root has 55 or
\* more and the exponent is even
DSqrtV(x, k) ==
    With(BShl(x.m, k), LAMBDA n :
    With(BSqrt(n), LAMBDA root :
         DRound(FALSE, root, (x.e - k) \div 2, BMul(root, root) # n)))

\* sqrt(x) for x >= 0
DSqrt(x) ==
    With(x, LAMBDA v :
        IF DIsZero(v) THEN v
        ELSE With(IF BBitLen(v.m) < 110 THEN 110 - BBitLen(v.m) ELSE 0, LAMBDA need :
                 DSqrtV(v, IF (v.e - need) % 2 = 0 THEN need ELSE need + 1)))

\* the integer nearest to (-1)^neg * m * 2^e, halves to even (m # 0)
RoundToIntV(neg, m, e) ==
    With(IF e >= 0 THEN BShl(m, e) ELSE BShr(m, 0 - e), LAMBDA q :
    With(BToInt(q) + (IF /\ e < 0
                         /\ BBit(m, 0 - e - 1) = 1
                         /\ (~BLowZero(m, 0 - e - 1) \/ BBit(q, 0) = 1)
                      THEN 1 ELSE 0),
         LAMBDA n : IF neg THEN 0 - n ELSE n))

RoundToInt(neg, m, e) == With2(m, e, LAMBDA v, x : RoundToIntV(neg, v, x))

\* np.rint(x) as an integer
DRint(x) == With(x, LAMBDA v : RoundToInt(v.neg, v.m, v.e))

\* x * y + z rounded once (fused multiply-add), for a product pm * 2^pe # 0
DFmaV(pneg, pm, pe, z) ==
    IF DIsZero(z) THEN DRound(pneg, pm, pe, FALSE)
    ELSE With(IF pe < z.e THEN pe ELSE z.e, LAMBDA e :
         With2(BShl(pm, pe - e), BShl(z.m, z.e - e), LAMBDA mp, mz :
               DAddAligned(pneg, mp, z.neg, mz, e)))

DFma(x, y, z) ==
    With2(x, y, LAMBDA u, v :
        With2(BMul(u.m, v.m), z, LAMBDA pm, w :
            IF pm = <<>> THEN w ELSE DFmaV(u.neg # v.neg, pm, u.e + v.e, w)))

\* |x| < |y| for x, y # 0
DBelow(x, y) ==
    IF DTop(x) # DTop(y) THEN DTop(x) < DTop(y)
    ELSE With(IF x.e < y.e THEN x.e ELSE y.e,
              LAMBDA e : BCmp(BShl(x.m, x.e - e), BShl(y.m, y.e - e)) < 0)

DLessV(x, y) ==
    IF x.neg # y.neg THEN x.neg
    ELSE IF DIsZero(x) THEN ~DIsZero(y)
    ELSE IF DIsZero(y) THEN FALSE
    ELSE IF x.neg THEN DBelow(y, x)
    ELSE DBelow(x, y)

\* x < y
DLess(x, y) == With2(x, y, LAMBDA u, v : DLessV(u, v))

\* x <= y
DLeq(x, y) == ~DLess(y, x)

\* |x|
DMagnitude(x) == [x EXCEPT !.neg = FALSE]

\* the float64 values next below and next above x * x, which is not one
DSquareBounds(m, e, s) ==
    [below |-> DMake(FALSE, BShr(m, s), e + s),
     above |-> DMake(FALSE, BAdd(BShr(m, s), <<1>>), e + s)]

\* of the two float64 values next to x * x, the one that is farther from it
\* (x * x itself when that is a float64)
DSquareFar(x) ==
    With2(x, DMul(x, x), LAMBDA v, near :
        With(BMul(v.m, v.m), LAMBDA m :
            IF BBitLen(m) <= 53 THEN near
            ELSE With(DSquareBounds(m, 2 * v.e, BBitLen(m) - 53), LAMBDA b :
                     IF near = b.below THEN b.above ELSE b.below)))

-----------------------------------------------------------------------------
(* Numbers of a data frame column.  A column of dtype float64 holds         *)
(* float64 values, +inf, -inf or NaN.  A MySQL DECIMAL sum that the driver  *)
(* delivers as Python Decimal objects makes a column of dtype object; its   *)
(* arithmetic is that of decimal.Decimal under the default context, and a   *)
(* division by zero raises.  A rounded float is written as the decimal      *)
(* num/den it prints as (den = 10 or 100).  An exception raised while a     *)
(* value is computed is written as the value Raised(name).                  *)

Finite(n, d) == [cls |-> "finite", num |-> n, den |-> d]
PosInf == [cls |-> "inf", num |-> 0, den |-> 1]
NegInf == [cls |-> "-inf", num |-> 0, den |-> 1]
NaN == [cls |-> "nan", num |-> 0, den |-> 1]
Raised(name) == [cls |-> "raised", error |-> name]

\* the column types the driver can deliver for SUM(...)
Dtypes == {"float64", "Decimal"}

\* Series.round on a column of dtype object, by pandas build: it raises
\* TypeError (numpy multiplies a Decimal by the float 10.0; pandas 3 rejects
\* the dtype) or returns the column unchanged (pandas 2.x)
ObjectRound == {"TypeError", "unchanged"}

\* a / b on float64 values (IEEE 754: x/0 is +-inf, 0/0 is NaN)
FloatDiv(a, b) ==
    IF b # 0 THEN DDiv(DFromInt(a), DFromInt(b))
    ELSE IF a > 0 THEN PosInf
    ELSE IF a < 0 THEN NegInf
    ELSE NaN

\* x * k on float64 values, k > 0
FloatMul(x, k) == IF x.cls = "float64" THEN DMul(x, DFromInt(k)) ELSE x

\* Series.fillna(v): only NaN is replaced
fillna(x, v) == IF x.cls = "nan" THEN DFromInt(v) ELSE x

\* n/d rounded to the nearest integer, halves to even (d # 0)
RoundHalfEven(n, d) ==
    LET nn == IF d < 0 THEN -n ELSE n
        dd == IF d < 0 THEN -d ELSE d
        q == nn \div dd
        r == nn % dd
    IN  IF 2 * r < dd THEN q
        ELSE IF 2 * r > dd THEN q + 1
        ELSE IF q % 2 = 0 THEN q ELSE q + 1

\* Series.round(1) of a float64 column: numpy multiplies by 10, rounds to the
\* nearest integer (np.rint) and divides by 10; the value in tenths.
\* +-inf stay.
round1(x) == IF x.cls = "float64" THEN Finite(DRint(DMul(x, DFromInt(10))), 10) ELSE x

\* decimal.getcontext(): the default context of Python's decimal module
getcontext == [prec |-> 28, rounding |-> "ROUND_HALF_EVEN"]

\* a decimal.Decimal: (-1)^neg * digits * 10^exp, digits being the
\* coefficient's decimal digits, the most significant first
Decimal(neg, digits, exp) == [cls |-> "Decimal", neg |-> neg, digits |-> digits, exp |-> exp]

RECURSIVE int_digits(_)
\* the decimal digits of n >= 0
int_digits(n) == IF n < 10 THEN <<n>> ELSE Append(int_digits(n \div 10), n % 10)

RECURSIVE digits_plus_one(_)
\* the digits of the coefficient + 1
digits_plus_one(digits) ==
    IF digits = <<>> THEN <<1>>
    ELSE IF digits[Len(digits)] < 9
    THEN [digits EXCEPT ![Len(digits)] = @ + 1]
    ELSE Append(digits_plus_one(SubSeq(digits, 1, Len(digits) - 1)), 0)

RECURSIVE long_division(_, _)
\* the digits of a quotient continued with those of q.r / d, until the
\* division is exact or prec significant digits are found
long_division(q, d) ==
    IF q.r = 0 \/ Len(q.digits) = getcontext.prec THEN q
    ELSE With([digits |-> IF q.digits = <<>> /\ (q.r * 10) \div d = 0 THEN <<>>
                          ELSE Append(q.digits, (q.r * 10) \div d),
               exp |-> q.exp - 1,
               r |-> (q.r * 10) % d],
              LAMBDA next : long_division(next, d))

\* the quotient q of a division by d rounded to prec digits: the digits
\* that follow round it up when they are more than half a unit, or half a
\* unit and the last digit kept is odd
quotient_fix(q, d) ==
    IF q.r = 0 THEN [digits |-> q.digits, exp |-> q.exp]
    ELSE LET next == (q.r * 10) \div d
             rest == (q.r * 10) % d
             up == \/ next > 5
                   \/ next = 5 /\ (rest # 0 \/ q.digits[Len(q.digits)] % 2 = 1)
             digits == IF up THEN digits_plus_one(q.digits) ELSE q.digits
         IN  IF Len(digits) > getcontext.prec
             THEN [digits |-> SubSeq(digits, 1, getcontext.prec), exp |-> q.exp + 1]
             ELSE [digits |-> digits, exp |-> q.exp]

\* Decimal(n) / Decimal(d): x/0 raises DivisionByZero and 0/0
\* InvalidOperation; an exact quotient keeps no zeros after the point
decimal_truediv(n, d) ==
    IF d = 0 THEN Raised(IF n = 0 THEN "InvalidOperation" ELSE "DivisionByZero")
    ELSE LET whole == Abs(n) \div Abs(d)
             q == quotient_fix(long_division([digits |-> IF whole = 0 /\ n # 0 THEN <<>>
                                                          ELSE int_digits(whole),
                                              exp |-> 0,
                                              r |-> Abs(n) % Abs(d)], Abs(d)), Abs(d))
         IN  Decimal((n < 0) # (d < 0), q.digits, q.exp)

\* x * 100 of a Decimal: the coefficient gets two zeros, and loses the zeros
\* beyond prec digits
decimal_mul_100(x) ==
    IF \A i \in 1..Len(x.digits) : x.digits[i] = 0 THEN Decimal(x.neg, <<0>>, x.exp)
    ELSE LET digits == x.digits \o <<0, 0>>
             cut == IF Len(digits) > getcontext.prec THEN Len(digits) - getcontext.prec ELSE 0
         IN  Decimal(x.neg, SubSeq(digits, 1, Len(digits) - cut), x.exp + cut)

\* the float64 or Decimal x is the whole number v
IsNumber(x, v) ==
    \/ x.cls = "float64" /\ x = DFromInt(v)
    \/ x.cls = "finite" /\ x.num = v * x.den
    \/ x.cls = "Decimal" /\ x.exp <= 0
          /\ x.digits = int_digits(Abs(v)) \o [i \in 1..(0 - x.exp) |-> 0]
          /\ (v # 0 => x.neg = (v < 0))

\* (num / den * 100).fillna(0) of one row: float64 arithmetic, or that of
\* Decimal, where a division by zero raises
pct(dtype, num, den) ==
    IF dtype = "float64" THEN fillna(FloatMul(FloatDiv(num, den), 100), 0)
    ELSE With(decimal_truediv(num, den),
              LAMBDA q : IF q.cls = "raised" THEN q ELSE decimal_mul_100(q))

\* pct(...).round(1): a float64 is rounded; a Decimal is left as it is or
\* round raises, by pandas build
pct_round1(dtype, num, den, object_round) ==
    With(pct(dtype, num, den),
         LAMBDA x : IF x.cls = "Decimal"
                    THEN IF object_round = "TypeError" THEN Raised("TypeError") ELSE x
                    ELSE round1(x))

\* the exception that ends a computation done column by column, each column
\* row by row: that of the first value raised, "" when none is
first_raised(columns) ==
    IF \E c \in 1..Len(columns) : \E k \in 1..Len(columns[c]) : columns[c][k].cls = "raised"
    THEN LET c == CHOOSE c \in 1..Len(columns) :
                    /\ \E k \in 1..Len(columns[c]) : columns[c][k].cls = "raised"
                    /\ \A b \in 1..(c - 1) :
                          \A k \in 1..Len(columns[b]) : columns[b][k].cls # "raised"
             k == CHOOSE k \in 1..Len(columns[c]) :
                    /\ columns[c][k].cls = "raised"
                    /\ \A j \in 1..(k - 1) : columns[c][j].cls # "raised"
         IN  columns[c][k].error
    ELSE ""

\* the column (df[num] / df[den] * 100).fillna(0)
pct_column(rows, dtype, num, den) ==
    [k \in 1..Len(rows) |-> pct(dtype, rows[k][num], rows[k][den])] \o <<>>

\* the column (df[num] / df[den] * 100).fillna(0).round(1)
pct_round1_column(rows, dtype, num, den, object_round) ==
    [k \in 1..Len(rows) |->
        pct_round1(dtype, rows[k][num], rows[k][den], object_round)] \o <<>>

\* the data frame of the lane page with its two columns
lane_frame(rows, crossdock_cost_pct, margin_pct) ==
    [k \in 1..Len(rows) |->
        [lane |-> rows[k].lane,
         order_count |-> rows[k].order_count,
         total_revenue |-> rows[k].total_revenue,
         total_cost |-> rows[k].total_cost,
         total_profit |-> rows[k].total_profit,
         crossdock_cost |-> rows[k].crossdock_cost,
         crossdock_cost_pct |-> crossdock_cost_pct[k],
         margin_pct |-> margin_pct[k]]]

\* "src/Profit by Lane /app.py" lines 240-243: the columns the page adds to a
\* non-empty df, line 242 before line 243 and the division of a column before
\* its round; an exception raised on the way aborts the page run.
lane_page(rows, dtype, object_round) ==
    With([crossdock_cost_pct |-> <<pct_column(rows, dtype, "crossdock_cost", "total_cost"),
                                   pct_round1_column(rows, dtype, "crossdock_cost", "total_cost",
                                                     object_round)>>,
          margin_pct |-> <<pct_column(rows, dtype, "total_profit", "total_revenue"),
                           pct_round1_column(rows, dtype, "total_profit", "total_revenue",
                                             object_round)>>],
         LAMBDA col :
            With(first_raised(col.crossdock_cost_pct \o col.margin_pct),
                 LAMBDA error :
                    IF error # "" THEN [error |-> error, rows |-> <<>>]
                    ELSE [error |-> "",
                          rows |-> lane_frame(rows, col.crossdock_cost_pct[2],
                                              col.margin_pct[2])]))

-----------------------------------------------------------------------------
(* Within-Market Analysis: "src/Profit by Lane /pages/2_Market_Analysis.py" *)

MarketTypeOptions == {"All", FTL, LTL, "Parcel"}

\* base_where of get_market_data with no customer selected
market_where(o, mode, include_crossdock) ==
    /\ o.shipmentStatus = "Complete"
    /\ o.startMarket # Null /\ o.startMarket # ""
    /\ o.endMarket # Null /\ o.startMarket = o.endMarket
    /\ InDateRange(o.pickWindowFrom)
    /\ (mode # "All" => o.shipmentType = mode)
    /\ (~include_crossdock =>
            /\ o.pickLocationName # Null /\ o.dropLocationName # Null
            /\ o.pickLocationName # o.dropLocationName)

\* SELECT ... GROUP BY startMarket of get_market_data: the set of aggregate rows
market_groups(table, mode, include_crossdock) ==
    LET rows == {i \in 1..Len(table) : market_where(table[i], mode, include_crossdock)}
        rev == [i \in rows |-> COALESCE(table[i].revenueAllocationNumber, 0)]
        cost == [i \in rows |-> COALESCE(table[i].costAllocationNumber, 0)]
        xdc == [i \in rows |-> IF SamePlace(table[i]) THEN cost[i] ELSE 0]
        xdr == [i \in rows |-> IF SamePlace(table[i]) THEN rev[i] ELSE 0]
    IN  { LET members == {i \in rows : table[i].startMarket = m}
          IN  [market |-> m,
               order_count |-> Cardinality({table[i].orderCode : i \in members} \ {Null}),
               total_revenue |-> SumOver(members, rev, 0),
               total_cost |-> SumOver(members, cost, 0),
               total_profit |-> SumOver(members, rev, 0) - SumOver(members, cost, 0),
               crossdock_cost |-> SumOver(members, xdc, 0),
               crossdock_revenue |-> SumOver(members, xdr, 0)]
          : m \in {table[i].startMarket : i \in rows} }

\* get_market_data: the data frames execute_query may return (ORDER BY total_profit ASC)
get_market_data(table, mode, include_crossdock) ==
    { [rows |-> f] : f \in OrderByProfitAsc(market_groups(table, mode, include_crossdock)) }

\* lines 123-124: display_df with its margin_pct column (not rounded); an
\* exception raised by the division aborts the page run
market_page(rows, dtype) ==
    With(pct_column(rows, dtype, "total_profit", "total_revenue"),
         LAMBDA margin_pct :
            IF first_raised(<<margin_pct>>) # ""
            THEN [error |-> first_raised(<<margin_pct>>), rows |-> <<>>]
            ELSE [error |-> "",
                  rows |-> [k \in 1..Len(rows) |->
                              [market |-> rows[k].market,
                               order_count |-> rows[k].order_count,
                               total_revenue |-> rows[k].total_revenue,
                               total_cost |-> rows[k].total_cost,
                               total_profit |-> rows[k].total_profit,
                               crossdock_cost |-> rows[k].crossdock_cost,
                               crossdock_revenue |-> rows[k].crossdock_revenue,
                               margin_pct |-> margin_pct[k]]]])

-----------------------------------------------------------------------------
(* The Profit by Lane app as a state machine.  Legs are written to the data  *)
(* source, then one page of the app is run on it.                            *)

OrderCodes == {"A1", "B2", Null}
LegShipmentTypes == {FTL, LTL, "Parcel", Null}
MainFlags == {"YES", "NO"}
Statuses == {"Complete", "Pending"}

\* A leg of the data source.  Order A1 runs LAX -> EWR, like the legs whose
\* orderCode is NULL; order B2 stays within ORD; the main leg carries the
\* order's revenue, an auxiliary leg carries a handling cost at a cross-dock
\* (pickup = drop location).
LaneLeg(code, type, main, status) ==
    [orderCode |-> code,
     shipmentType |-> type,
     mainShipment |-> main,
     shipmentStatus |-> status,
     startMarket |-> IF code = "B2" THEN "ORD" ELSE "LAX",
     endMarket |-> IF code = "B2" THEN "ORD" ELSE "EWR",
     pickWindowFrom |-> {5 * SecondsPerDay},
     pickLocationName |-> IF main = "YES" THEN "Shipper" ELSE "WTCH-LAX-9",
     dropLocationName |-> IF main = "YES" THEN "Store" ELSE "WTCH-LAX-9",
     revenueAllocationNumber |-> IF main = "YES" THEN {450} ELSE {},
     costAllocationNumber |-> IF main = "YES" THEN {} ELSE {120}]

\* what pickWindowFrom parses to: a day within the range, midnight of the
\* end date, the morning of the end date, the second before the start date,
\* and a text that is no timestamp (NULL)
LaneWindows ==
    <<{5 * SecondsPerDay}, {EndDay * SecondsPerDay}, {EndDay * SecondsPerDay + 8 * 3600},
      {StartDay * SecondsPerDay - 1}, {}>>

LaneLegs ==
    {LaneLeg(c, t, m, s) : c \in OrderCodes, t \in LegShipmentTypes,
                           m \in MainFlags, s \in Statuses}
    \cup {[LaneLeg("A1", FTL, "NO", "Complete") EXCEPT !.pickWindowFrom = LaneWindows[n]]
             : n \in 1..Len(LaneWindows)}

\* position of a leg in the canonical listing of a stored table
LegRank(o) ==
    LET t == CASE o.shipmentType = FTL -> 0 [] o.shipmentType = LTL -> 1
                  [] o.shipmentType = Null -> 3 [] OTHER -> 2
        s == IF o.shipmentStatus = "Complete" THEN 0 ELSE 1
        w == CHOOSE n \in 1..Len(LaneWindows) : LaneWindows[n] = o.pickWindowFrom
    IN  (((TextRank(o.orderCode) * 4 + t) * Len(Collation) + TextRank(o.mainShipment)) * 2 + s)
            * Len(LaneWindows) + w

\* the lanes get_filter_options offers in the "Select Lane" selectbox
LaneOptions(table) ==
    {Lane(table[i]) : i \in {j \in 1..Len(table) :
        /\ table[j].startMarket # Null /\ table[j].startMarket # ""
        /\ table[j].endMarket # Null /\ table[j].endMarket # ""}}

InitLane ==
    /\ app = "lane"
    /\ pc = "idle"
    /\ otp_reports = <<>>
    /\ sidebar = Unused
    /\ df = Unused

\* the data source receives a leg
InsertLeg ==
    /\ app = "lane" /\ pc = "idle"
    /\ Len(otp_reports) < MaxLegs
    /\ \E o \in LaneLegs :
        /\ Len(otp_reports) > 0 => LegRank(otp_reports[Len(otp_reports)]) <= LegRank(o)
        /\ otp_reports' = Append(otp_reports, o)
    /\ UNCHANGED <<app, pc, sidebar, df>>

\* app.py runs: the main query
LaneLoad ==
    /\ app = "lane" /\ pc = "idle"
    /\ \E mode \in ShipmentTypeOptions :
        /\ sidebar' = [shipment_type |-> mode]
        /\ df' \in get_profit_by_lane_data(otp_reports, mode)
    /\ pc' = "lane_loaded"
    /\ UNCHANGED <<app, otp_reports>>

\* app.py lines 240-290: the page shows the table, or the "No data" warning
LanePage ==
    /\ app = "lane" /\ pc = "lane_loaded"
    /\ IF Len(df.rows) > 0
       THEN \E dtype \in Dtypes, object_round \in ObjectRound :
              \E page \in {lane_page(df.rows, dtype, object_round)} :
                  /\ df' = [filtered_rows |-> df.filtered_rows,
                            rows |-> page.rows, error |-> page.error]
                  /\ pc' = IF page.error = "" THEN "lane_shown" ELSE "lane_raised"
       ELSE /\ df' = df
            /\ pc' = "lane_warning"
    /\ UNCHANGED <<app, otp_reports, sidebar>>

\* pages/1_Drill_Down.py runs for a lane chosen in the sidebar
DrillDown ==
    /\ app = "lane" /\ pc = "idle"
    /\ \E mode \in ShipmentTypeOptions, v \in LaneOptions(otp_reports) :
        /\ sidebar' = [shipment_type |-> mode, selected_value |-> v]
        /\ df' = get_order_details(otp_reports, v, mode)
    /\ pc' = "detail_loaded"
    /\ UNCHANGED <<app, otp_reports>>

\* pages/2_Market_Analysis.py runs: the query
MarketLoad ==
    /\ app = "lane" /\ pc = "idle"
    /\ \E mode \in MarketTypeOptions, xd \in BOOLEAN :
        /\ sidebar' = [shipment_type |-> mode, include_crossdock |-> xd]
        /\ df' \in get_market_data(otp_reports, mode, xd)
    /\ pc' = "market_loaded"
    /\ UNCHANGED <<app, otp_reports>>

\* pages/2_Market_Analysis.py lines 105-140
MarketPage ==
    /\ app = "lane" /\ pc = "market_loaded"
    /\ IF Len(df.rows) > 0
       THEN \E dtype \in Dtypes :
              \E page \in {market_page(df.rows, dtype)} :
                  /\ df' = [rows |-> page.rows, error |-> page.error]
                  /\ pc' = IF page.error = "" THEN "market_shown" ELSE "market_raised"
       ELSE /\ df' = df
            /\ pc' = "market_warning"
    /\ UNCHANGED <<app, otp_reports, sidebar>>

NextLane == InsertLeg \/ LaneLoad \/ LanePage \/ DrillDown \/ MarketLoad \/ MarketPage

SpecLane == InitLane /\ [][NextLane]_vars

-----------------------------------------------------------------------------
(* Properties of the Profit by Lane app *)

\* the base filters of the query whose result df holds
CurrentKeep(o) ==
    IF pc = "detail_loaded" THEN detail_base_where(o, sidebar.selected_value)
    ELSE base_where(o)

LaneQueryDone == app = "lane" /\ pc \in {"lane_loaded", "detail_loaded"}

\* the legs of leg i's order that are Less Than Truckload and pass the base filters
LtlLegsOfOrder(i) ==
    {j \in 1..Len(otp_reports) :
        /\ otp_reports[j].orderCode = otp_reports[i].orderCode
        /\ otp_reports[j].shipmentType = LTL
        /\ CurrentKeep(otp_reports[j])}

\* C1: in the modes "Less Than Truckload" and "All" of get_profit_by_lane_data
\* and get_order_details, of a Less Than Truckload order with more than one
\* leg row among the filtered rows only the mainShipment = 'NO' rows reach
\* the aggregate; its mainShipment = 'YES' row never does, whatever other
\* rows share the order code.
C1_MultiLegLtlOnlyAuxiliary ==
    (LaneQueryDone /\ sidebar.shipment_type \in {LTL, "All"}) =>
        \A i \in 1..Len(otp_reports) :
            ( /\ otp_reports[i].shipmentType = LTL
              /\ CurrentKeep(otp_reports[i])
              /\ Cardinality(LtlLegsOfOrder(i)) > 1
              /\ df.filtered_rows[i] > 0 )
            => otp_reports[i].mainShipment = "NO"

\* C2: every Full Truckload leg that satisfies the base filters is billable
\* in the modes "Full Truckload" and "All", whatever its mainShipment flag
\* and its order code: it is among the rows aggregated, its lane has an
\* aggregate row (which counts its order when it has an order code), and the
\* drill-down lists it.
C2_FtlLegsBillable ==
    (LaneQueryDone /\ sidebar.shipment_type \in {FTL, "All"}) =>
        \A i \in 1..Len(otp_reports) :
            (otp_reports[i].shipmentType = FTL /\ CurrentKeep(otp_reports[i])) =>
                /\ df.filtered_rows[i] >= 1
                /\ pc = "lane_loaded" =>
                     \E k \in 1..Len(df.rows) :
                        /\ df.rows[k].lane = Lane(otp_reports[i])
                        /\ otp_reports[i].orderCode # Null => df.rows[k].order_count >= 1
                /\ pc = "detail_loaded" =>
                     \E k \in 1..Len(df.rows) : df.rows[k].WarpID = i

\* C8 (lane table and within-market table): a page that shows aggregate rows
\* raised no division error, and every row with total revenue 0 has margin
\* percent 0 and margin = - total cost.
C8_ZeroRevenueMarginZero ==
    (app = "lane" /\ pc \in {"lane_shown", "lane_raised", "market_shown", "market_raised"}) =>
        /\ df.error \notin {"DivisionByZero", "InvalidOperation"}
        /\ \A k \in 1..Len(df.rows) :
            df.rows[k].total_revenue = 0 =>
                /\ IsNumber(df.rows[k].margin_pct, 0)
                /\ df.rows[k].total_profit = 0 - df.rows[k].total_cost

\* C12: a row whose shipmentType is NULL is treated as 'Other': in the "All"
\* mode of get_profit_by_lane_data and get_order_details such a row that
\* passes the base filters is among the rows read exactly when its
\* mainShipment is 'YES'.
C12_MissingTypeIsOther ==
    (LaneQueryDone /\ sidebar.shipment_type = "All") =>
        \A i \in 1..Len(otp_reports) :
            (otp_reports[i].shipmentType = Null /\ CurrentKeep(otp_reports[i])) =>
                (df.filtered_rows[i] >= 1 <=> otp_reports[i].mainShipment = "YES")

\* leg i has a shipment type that is neither Full Truckload nor Less Than
\* Truckload and passes the base filters
OtherTypeLeg(i) ==
    /\ otp_reports[i].shipmentType \notin {FTL, LTL, Null}
    /\ base_where(otp_reports[i])

\* the legs read for lane row r, leaving out the auxiliary legs of other types
LaneContributors(r) ==
    {i \in 1..Len(otp_reports) :
        /\ df.filtered_rows[i] > 0
        /\ Lane(otp_reports[i]) = r.lane
        /\ ~(OtherTypeLeg(i) /\ otp_reports[i].mainShipment = "NO")}

\* C13: in the "All" mode of get_profit_by_lane_data a leg of another shipment
\* type that passes the base filters is among the rows read if and only if
\* its mainShipment is 'YES', and every lane row's order count, revenue and
\* cost come from the other rows read alone: an auxiliary leg of such a type
\* adds nothing to them.
C13_OtherTypesOnlyMainLeg ==
    (app = "lane" /\ pc = "lane_loaded" /\ sidebar.shipment_type = "All") =>
        /\ \A i \in 1..Len(otp_reports) :
              OtherTypeLeg(i) =>
                 (df.filtered_rows[i] >= 1 <=> otp_reports[i].mainShipment = "YES")
        /\ \A k \in 1..Len(df.rows) :
              /\ df.rows[k].order_count
                   = Cardinality({otp_reports[i].orderCode : i \in LaneContributors(df.rows[k])}
                                    \ {Null})
              /\ df.rows[k].total_revenue
                   = SumOver(LaneContributors(df.rows[k]),
                             [i \in 1..Len(otp_reports) |->
                                 df.filtered_rows[i]
                                   * COALESCE(otp_reports[i].revenueAllocationNumber, 0)], 0)
              /\ df.rows[k].total_cost
                   = SumOver(LaneContributors(df.rows[k]),
                             [i \in 1..Len(otp_reports) |->
                                 df.filtered_rows[i]
                                   * COALESCE(otp_reports[i].costAllocationNumber, 0)], 0)

\* the legs the classifier of the "All" mode selects: the rows of the query's
\* result, each taken once
SelectedLegs == {i \in 1..Len(otp_reports) : df.filtered_rows[i] > 0}

(* C24: in the "All" mode of get_profit_by_lane_data and get_order_details  *)
(* every leg row the classifier selects contributes exactly once: it occurs *)
(* once among the filtered rows, the revenue, cost and crossdock cost of a  *)
(* lane are the sums over its selected legs, each counted once, and the     *)
(* drill-down lists each selected leg once, also when the rows of an order  *)
(* have different shipment types.                                           *)
C24_JoinNeverMultipliesARow ==
    (LaneQueryDone /\ sidebar.shipment_type = "All") =>
        /\ \A i \in 1..Len(otp_reports) : df.filtered_rows[i] <= 1
        /\ pc = "lane_loaded" =>
            \A k \in 1..Len(df.rows) :
                LET members == {i \in SelectedLegs :
                                    /\ otp_reports[i].startMarket = df.rows[k].startMarket
                                    /\ otp_reports[i].endMarket = df.rows[k].endMarket}
                IN  /\ df.rows[k].total_revenue =
                        SumOver(members, [i \in members |->
                            COALESCE(otp_reports[i].revenueAllocationNumber, 0)], 0)
                    /\ df.rows[k].total_cost =
                        SumOver(members, [i \in members |->
                            COALESCE(otp_reports[i].costAllocationNumber, 0)], 0)
                    /\ df.rows[k].crossdock_cost =
                        SumOver(members, [i \in members |->
                            IF SamePlace(otp_reports[i])
                            THEN COALESCE(otp_reports[i].costAllocationNumber, 0) ELSE 0], 0)
        /\ pc = "detail_loaded" =>
            /\ Len(df.rows) = Cardinality(SelectedLegs)
            /\ \A i \in SelectedLegs :
                    Cardinality({k \in 1..Len(df.rows) : df.rows[k].WarpID = i}) = 1

-----------------------------------------------------------------------------
(* Text inspected character by character: a sequence of one-character      *)
(* strings; NoText is the NULL / NaN of such a field.                      *)

NoText == <<Null>>

\* pattern `pat` occurs in text t at position k
OccursAt(t, pat, k) ==
    /\ k >= 1 /\ k + Len(pat) - 1 <= Len(t)
    /\ \A n \in 1..Len(pat) : t[k + n - 1] = pat[n]

\* str.startswith / LIKE 'pat%' on a text that is not NULL
StartsWith(t, pat) == OccursAt(t, pat, 1)

\* `pat in t` / LIKE '%pat%' on a text that is not NULL
Contains(t, pat) == \E k \in 1..(Len(t) + 1) : OccursAt(t, pat, k)

\* LOWER(c) of one character (the letters the model's texts use)
LowerChar(c) ==
    CASE c = "T" -> "t" [] c = "E" -> "e" [] c = "S" -> "s" [] OTHER -> c

Lower(t) == [k \in 1..Len(t) |-> LowerChar(t[k])]

\* the characters the regular expression \s matches
Whitespace == {" ", "\t", "\n"}

-----------------------------------------------------------------------------
(* Profit by location: src/profit_by_location_app.py *)

MaxLocLegs == 3

\* head(5) of the sample lists
SampleSize == 5

\* STR_TO_DATE(o.pickWindowFrom, ...) >= start_date_str AND ... <= end_date_str:
\* the parsed timestamp against midnight of the two dates
BetweenDates(stamp, start_date, end_date) ==
    /\ stamp # {}
    /\ \A t \in stamp : t >= start_date * SecondsPerDay /\ t <= end_date * SecondsPerDay

\* the WHERE of get_raw_data's query; a NULL operand makes a conjunct not true
raw_where(o, start_date, end_date) ==
    /\ BetweenDates(o.pickWindowFrom, start_date, end_date)
    /\ (o.loadStatus = Null \/ o.loadStatus # "Canceled")
    /\ o.pickZipcode # NoText /\ ~Contains(Lower(o.pickZipcode), <<"t", "e", "s", "t">>)
    /\ o.dropZipcode # NoText /\ ~Contains(Lower(o.dropZipcode), <<"t", "e", "s", "t">>)

\* df.groupby('loadId')['warpId'].nunique() merged back on loadId (how='left'):
\* the warp_count of row k, NaN ({}) for a row whose loadId is NaN
warp_count(rows, k) ==
    IF rows[k].loadId = Null THEN {}
    ELSE {Cardinality({rows[j].warpId : j \in {i \in 1..Len(rows) :
                            rows[i].loadId = rows[k].loadId}} \ {Null})}

\* lines 61-65
count_for_shipment(o, wc) ==
    ~( /\ wc # {} /\ (\A n \in wc : n > 1)
       /\ o.shipmentType = LTL
       /\ o.mainShipment = "YES" )

\* a fetch that keeps only the rows the classifier counts
get_raw_data_counted_only(table, start_date, end_date) ==
    LET fetched == SelectSeq(table, LAMBDA o : raw_where(o, start_date, end_date))
        annotated == [k \in 1..Len(fetched) |->
            [pickZipcode |-> fetched[k].pickZipcode,
             dropZipcode |-> fetched[k].dropZipcode,
             customerRoute |-> fetched[k].customerRoute,
             loadId |-> fetched[k].loadId,
             warpId |-> fetched[k].warpId,
             revenueAllocationNumber |-> COALESCE(fetched[k].revenueAllocationNumber, 0),
             costAllocationNumber |-> COALESCE(fetched[k].costAllocationNumber, 0),
             shipmentType |-> fetched[k].shipmentType,
             mainShipment |-> fetched[k].mainShipment,
             pickWindowFrom |-> fetched[k].pickWindowFrom,
             warp_count |-> warp_count(fetched, k),
             count_for_shipment |-> count_for_shipment(fetched[k], warp_count(fetched, k))]]
    IN  SelectSeq(annotated, LAMBDA r : r.count_for_shipment)

\* get_raw_data(start_date_str, end_date_str) when it runs its query: the data
\* frame, <<>> when empty; the amounts become numbers, NULL becoming 0
\* (to_numeric(...).fillna(0))
get_raw_data(table, start_date, end_date) ==
    LET fetched == SelectSeq(table, LAMBDA o : raw_where(o, start_date, end_date))
    IN  [k \in 1..Len(fetched) |->
            [pickZipcode |-> fetched[k].pickZipcode,
             dropZipcode |-> fetched[k].dropZipcode,
             customerRoute |-> fetched[k].customerRoute,
             loadId |-> fetched[k].loadId,
             warpId |-> fetched[k].warpId,
             revenueAllocationNumber |-> COALESCE(fetched[k].revenueAllocationNumber, 0),
             costAllocationNumber |-> COALESCE(fetched[k].costAllocationNumber, 0),
             shipmentType |-> fetched[k].shipmentType,
             mainShipment |-> fetched[k].mainShipment,
             pickWindowFrom |-> fetched[k].pickWindowFrom,
             warp_count |-> warp_count(fetched, k),
             count_for_shipment |-> count_for_shipment(fetched[k], warp_count(fetched, k))]]

\* the rows of one group of df.groupby([group_col]); a NaN key forms no group
GroupMembers(rows, group_col, key) ==
    {k \in 1..Len(rows) : rows[k][group_col] = key}

GroupKeys(rows, group_col) ==
    {rows[k][group_col] : k \in 1..Len(rows)} \ {NoText}

\* Total_Revenue=('revenueAllocationNumber', 'sum') of one group
Total_Revenue(rows, members) ==
    SumOver(members, [k \in members |-> rows[k].revenueAllocationNumber], 0)

\* Total_Cost=('costAllocationNumber', 'sum') of one group
Total_Cost(rows, members) ==
    SumOver(members, [k \in members |-> rows[k].costAllocationNumber], 0)

\* Shipment_Count: x[df.loc[x.index, 'count_for_shipment']].nunique()
Shipment_Count(rows, members) ==
    Cardinality({rows[k].warpId : k \in {j \in members : rows[j].count_for_shipment}}
                \ {Null})

\* aggregate_by_column(df, group_col): the rows of agg_df, one per group key
\* (amounts are whole numbers, which round(2) leaves as they are)
aggregate_by_column(rows, group_col) ==
    { LET members == GroupMembers(rows, group_col, key)
      IN  [key |-> key,
           Total_Revenue |-> Total_Revenue(rows, members),
           Total_Cost |-> Total_Cost(rows, members),
           Margin |-> Total_Revenue(rows, members) - Total_Cost(rows, members),
           Shipment_Count |-> Shipment_Count(rows, members)]
      : key \in GroupKeys(rows, group_col) }


RECURSIVE Ascending(_)
\* the members of a set of row positions, in row order
Ascending(S) ==
    IF S = {} THEN <<>>
    ELSE LET m == CHOOSE x \in S : \A y \in S : x <= y
         IN  <<m>> \o Ascending(S \ {m})

\* .head(n)
Head_n(seq, n) == SubSeq(seq, 1, Min(n, Len(seq)))

\* lines 131-135, 146-150, 225-229: up to five loadIds of the masked rows, then
\* f"warpId:{wid}" of masked rows without a loadId while fewer than five
sample_loadids(rows, mask) ==
    LET with_load == Head_n(Ascending({k \in mask : rows[k].loadId # Null}), SampleSize)
        remaining == SampleSize - Len(with_load)
        without   == Head_n(Ascending({k \in mask : rows[k].loadId = Null}), remaining)
    IN  [k \in 1..Len(with_load) |-> [prefix |-> "", id |-> rows[with_load[k]].loadId]]
        \o (IF Len(with_load) < SampleSize
            THEN [k \in 1..Len(without) |->
                    [prefix |-> "warpId:", id |-> rows[without[k]].warpId]]
            ELSE <<>>)

\* df.groupby('loadId').agg(sum): one row per non-NaN loadId, in key order
load_aggregates(rows) ==
    LET keys == {rows[k].loadId : k \in 1..Len(rows)} \ {Null}
        ranks == Ascending({TextRank(l) : l \in keys})
    IN  [n \in 1..Len(ranks) |->
            LET members == {k \in 1..Len(rows) : TextRank(rows[k].loadId) = ranks[n]}
            IN  [loadId |-> Collation[ranks[n]],
                 revenueAllocationNumber |-> Total_Revenue(rows, members),
                 costAllocationNumber |-> Total_Cost(rows, members)]]

\* df['warpId'].duplicated(): an earlier row carries the same warpId
duplicated(rows, k) == \E j \in 1..(k - 1) : rows[j].warpId = rows[k].warpId

\* str.contains(r'\s{2,}', na=False, regex=True)
contains_two_spaces(t) ==
    /\ t # NoText
    /\ \E k \in 1..(Len(t) - 1) : t[k] \in Whitespace /\ t[k + 1] \in Whitespace

\* ~df['customerRoute'].str.contains('>', na=False): NaN counts as "no '>'"
routes_no_arrow(t) == ~(t # NoText /\ Contains(t, <<">">>))

\* one entry of the issues dict, or nothing
Finding(fires, name, counts, samples) ==
    IF fires THEN <<[name |-> name, counts |-> counts, samples |-> samples]>> ELSE <<>>

\* run_data_quality_checks(df): the issues dict, in insertion order
run_data_quality_checks(rows) ==
    LET all == 1..Len(rows)
        null_routes == {k \in all : rows[k].customerRoute = NoText \/ rows[k].customerRoute = <<>>}
        null_pick == {k \in all : rows[k].pickZipcode = NoText}
        null_drop == {k \in all : rows[k].dropZipcode = NoText}
        loads == load_aggregates(rows)
        zero_revenue == {n \in 1..Len(loads) : loads[n].revenueAllocationNumber = 0}
        negative_revenue == {n \in 1..Len(loads) : loads[n].revenueAllocationNumber < 0}
        zero_cost == {n \in 1..Len(loads) : loads[n].costAllocationNumber = 0}
        negative_cost == {n \in 1..Len(loads) : loads[n].costAllocationNumber < 0}
        duplicate_warps == {k \in all : duplicated(rows, k)}
        multiple_spaces == {k \in all : contains_two_spaces(rows[k].customerRoute)}
        no_arrow == {k \in all : routes_no_arrow(rows[k].customerRoute)}
        missing_type == {k \in all : rows[k].shipmentType = Null}
        missing_main == {k \in all : rows[k].mainShipment = Null}
        ids(S) == LET picked == Head_n(Ascending(S), SampleSize)
                  IN  [n \in 1..Len(picked) |-> loads[picked[n]].loadId]
        warps(S) == LET picked == Head_n(Ascending(S), SampleSize)
                    IN  [n \in 1..Len(picked) |-> rows[picked[n]].warpId]
        routes(S) == LET picked == Head_n(Ascending(S), SampleSize)
                     IN  [n \in 1..Len(picked) |-> rows[picked[n]].customerRoute]
    IN  Finding(null_routes # {}, "Missing Routes",
                <<Cardinality(null_routes)>>, sample_loadids(rows, null_routes))
        \o Finding(null_pick # {} \/ null_drop # {}, "Missing Zip Codes",
                <<Cardinality(null_pick), Cardinality(null_drop)>>,
                sample_loadids(rows, null_pick \cup null_drop))
        \o Finding(zero_revenue # {} \/ negative_revenue # {}, "Revenue Issues",
                <<Cardinality(zero_revenue), Cardinality(negative_revenue)>>,
                ids(zero_revenue \cup negative_revenue))
        \o Finding(zero_cost # {} \/ negative_cost # {}, "Cost Issues",
                <<Cardinality(zero_cost), Cardinality(negative_cost)>>,
                ids(zero_cost \cup negative_cost))
        \o Finding(duplicate_warps # {}, "Duplicate Records",
                <<Cardinality(duplicate_warps)>>, warps(duplicate_warps))
        \o Finding(multiple_spaces # {}, "Route Formatting",
                <<Cardinality(multiple_spaces)>>, routes(multiple_spaces))
        \o Finding(no_arrow # {}, "Route Pattern",
                <<Cardinality(no_arrow)>>, routes(no_arrow))
        \o Finding(missing_type # {} \/ missing_main # {}, "Missing Metadata",
                <<Cardinality(missing_type), Cardinality(missing_main)>>,
                sample_loadids(rows, missing_type \cup missing_main))

(* The rows the location report is run on.  BaseLocLegs are well-formed     *)
(* legs of two loads; DefectLocLegs each differ from one well-formed leg    *)
(* in one column.                                                           *)
LocLeg(load, warp, type, main, route, revenue, cost) ==
    [loadId |-> load, warpId |-> warp, shipmentType |-> type, mainShipment |-> main,
     customerRoute |-> route,
     revenueAllocationNumber |-> revenue, costAllocationNumber |-> cost,
     pickZipcode |-> <<"1", "0">>, dropZipcode |-> <<"9", "0">>,
     pickWindowFrom |-> {5 * SecondsPerDay}, loadStatus |-> "Complete"]

GoodRoute == <<"A", ">", "B">>

BaseLocLeg(load, warp, kind) ==
    CASE kind = 1 -> LocLeg(load, warp, LTL, "YES", GoodRoute, {500}, {0})
      [] kind = 2 -> LocLeg(load, warp, LTL, "NO", GoodRoute, {0}, {200})
      [] kind = 3 -> LocLeg(load, warp, FTL, "YES", GoodRoute, {500}, {300})

Plain == LocLeg("L1", "W1", FTL, "YES", GoodRoute, {500}, {300})

LocLegs ==
    <<BaseLocLeg("L1", "W1", 1), BaseLocLeg("L1", "W1", 2), BaseLocLeg("L1", "W1", 3),
      BaseLocLeg("L1", "W2", 1), BaseLocLeg("L1", "W2", 2), BaseLocLeg("L1", "W2", 3),
      BaseLocLeg("L2", "W1", 1), BaseLocLeg("L2", "W1", 2), BaseLocLeg("L2", "W1", 3),
      BaseLocLeg("L2", "W2", 1), BaseLocLeg("L2", "W2", 2), BaseLocLeg("L2", "W2", 3),
      [Plain EXCEPT !.customerRoute = NoText],
      [Plain EXCEPT !.customerRoute = <<>>],
      [Plain EXCEPT !.customerRoute = <<"A", " ", " ", ">", "B">>],
      [Plain EXCEPT !.customerRoute = <<"A", "B">>],
      [Plain EXCEPT !.loadId = Null],
      [Plain EXCEPT !.warpId = Null],
      [Plain EXCEPT !.shipmentType = Null],
      [Plain EXCEPT !.mainShipment = Null],
      [Plain EXCEPT !.revenueAllocationNumber = {}, !.costAllocationNumber = {}],
      [Plain EXCEPT !.revenueAllocationNumber = {0 - 50}],
      [Plain EXCEPT !.loadStatus = "Canceled"],
      [Plain EXCEPT !.loadStatus = Null],
      [Plain EXCEPT !.pickZipcode = NoText],
      [Plain EXCEPT !.dropZipcode = <<"T", "E", "S", "T">>],
      [Plain EXCEPT !.pickWindowFrom = {}],
      [Plain EXCEPT !.pickWindowFrom = {EndDay * SecondsPerDay + 8 * 3600}]>>

\* position of a leg in LocLegs: the table is kept in this order
LocRank(o) == CHOOSE k \in 1..Len(LocLegs) : LocLegs[k] = o

\* the rows the table may still receive once the page is open: it grows
\* while it has fewer rows than this
MaxLiveLegs == 1

\* the date ranges of the two date inputs: the default, and one that starts
\* after the day of the well-formed legs
LocDateRanges == {<<StartDay, EndDay>>, <<6, EndDay>>}

\* st.cache_data of get_raw_data holds no entry, st.session_state is empty;
\* the date inputs hold their defaults
InitLoc ==
    /\ app = "location"
    /\ pc = "idle"
    /\ otp_reports = <<>>
    /\ sidebar = [data_loaded |-> FALSE, start_date |-> StartDay, end_date |-> EndDay,
                  cache |-> {}]
    /\ df = Unused

\* a row arrives in otp_reports
InsertLocLeg ==
    /\ app = "location"
    /\ Len(otp_reports) < MaxLocLegs
    /\ pc = "idle" \/ Len(otp_reports) < MaxLiveLegs
    /\ \E n \in 1..Len(LocLegs) :
        /\ IF otp_reports = <<>> THEN TRUE
           ELSE LocRank(otp_reports[Len(otp_reports)]) <= n
        /\ otp_reports' = Append(otp_reports, LocLegs[n])
    /\ UNCHANGED <<app, pc, sidebar, df>>

\* @st.cache_data(ttl=300) around get_raw_data: the entry kept for the two
\* date strings, or a new one made by running the query.  `source` records
\* the table the query ran on (it is no part of the entry).
cached_raw_data(cache, table, start_date, end_date) ==
    LET hit == {c \in cache : c.start_date = start_date /\ c.end_date = end_date}
    IN  IF hit # {} THEN CHOOSE c \in hit : TRUE
        ELSE [start_date |-> start_date, end_date |-> end_date, source |-> table,
              raw_df |-> get_raw_data(table, start_date, end_date)]

\* lines 245-304: what the page shows for the frame in st.session_state
location_page(raw_df, entry) ==
    IF raw_df # <<>>
    THEN [raw_data |-> raw_df, fetched |-> entry,
          quality_issues |-> run_data_quality_checks(raw_df),
          df_pick |-> aggregate_by_column(raw_df, "pickZipcode"),
          df_drop |-> aggregate_by_column(raw_df, "dropZipcode"),
          df_route |-> aggregate_by_column(raw_df, "customerRoute")]
    ELSE [raw_data |-> raw_df, fetched |-> entry]

\* one run of the script (lines 10-304) with the date inputs holding
\* start_date and end_date: the fetch of lines 238-243 when the button was
\* clicked or the session has no data yet, then the page for the frame in
\* st.session_state['raw_data'].  The page of an unchanged frame is the page
\* already shown.
location_script(clicked, start_date, end_date) ==
    LET fetch == clicked \/ ~sidebar.data_loaded
        entry == cached_raw_data(sidebar.cache, otp_reports, start_date, end_date)
    IN  /\ sidebar' = [data_loaded |-> TRUE, start_date |-> start_date,
                       end_date |-> end_date,
                       cache |-> IF fetch THEN sidebar.cache \cup {entry} ELSE sidebar.cache]
        /\ IF ~fetch THEN UNCHANGED <<df, pc>>
           ELSE IF sidebar.data_loaded /\ entry.raw_df = df.raw_data
           THEN df' = [df EXCEPT !.fetched = entry] /\ UNCHANGED pc
           ELSE /\ df' = location_page(entry.raw_df, entry)
                /\ pc' = IF entry.raw_df # <<>> THEN "location_shown" ELSE "location_empty"

\* the page is opened: the first run of the script
LocationRun ==
    /\ app = "location" /\ pc = "idle"
    /\ ~sidebar.data_loaded
    /\ location_script(FALSE, sidebar.start_date, sidebar.end_date)
    /\ UNCHANGED <<app, otp_reports>>

\* "Load Data" is clicked: the script runs again and fetches
LoadData ==
    /\ app = "location" /\ pc # "idle"
    /\ location_script(TRUE, sidebar.start_date, sidebar.end_date)
    /\ UNCHANGED <<app, otp_reports>>

\* a date input is changed: the script runs again without a click
ChangeLocDates ==
    /\ app = "location" /\ pc # "idle"
    /\ \E range \in LocDateRanges :
        /\ range # <<sidebar.start_date, sidebar.end_date>>
        /\ location_script(FALSE, range[1], range[2])
    /\ UNCHANGED <<app, otp_reports>>

\* an entry of the cache of get_raw_data is 300 seconds old
LocTtlExpires ==
    /\ app = "location"
    /\ \E c \in sidebar.cache : sidebar' = [sidebar EXCEPT !.cache = @ \ {c}]
    /\ UNCHANGED <<app, pc, otp_reports, df>>

NextLoc == InsertLocLeg \/ LocationRun \/ LoadData \/ ChangeLocDates \/ LocTtlExpires

SpecLoc == InitLoc /\ [][NextLoc]_vars

(* The diagnostics on frames of more rows than a sample list holds: rows    *)
(* with and without loadId, with and without a defect, in any order.        *)
MaxSampleLegs == 6

SampleLegs ==
    <<[Plain EXCEPT !.customerRoute = NoText],
      [Plain EXCEPT !.customerRoute = <<>>, !.loadId = "L2", !.shipmentType = Null],
      [Plain EXCEPT !.customerRoute = NoText, !.loadId = Null, !.warpId = "W2",
                    !.mainShipment = Null],
      [Plain EXCEPT !.loadId = Null]>>

InitSamples ==
    /\ app = "location"
    /\ pc = "idle"
    /\ otp_reports = <<>>
    /\ sidebar = [data_loaded |-> FALSE, start_date |-> StartDay, end_date |-> EndDay,
                  cache |-> {}]
    /\ df = Unused

\* a row arrives in otp_reports
InsertSampleLeg ==
    /\ app = "location" /\ pc = "idle"
    /\ Len(otp_reports) < MaxSampleLegs
    /\ \E n \in 1..Len(SampleLegs) : otp_reports' = Append(otp_reports, SampleLegs[n])
    /\ UNCHANGED <<app, pc, sidebar, df>>

NextSamples == InsertSampleLeg \/ LocationRun

SpecSamples == InitSamples /\ [][NextSamples]_vars

-----------------------------------------------------------------------------
(* Properties of the profit-by-location report *)

LocationShown == app = "location" /\ pc = "location_shown"

GroupColumns == {"pickZipcode", "dropZipcode", "customerRoute"}

\* the aggregate table the page shows for a grouping column
ShownAggregate(group_col) ==
    CASE group_col = "pickZipcode" -> df.df_pick
      [] group_col = "dropZipcode" -> df.df_drop
      [] group_col = "customerRoute" -> df.df_route

\* the rows of a group that carry count_for_shipment = true
CountedMembers(rows, group_col, key) ==
    {k \in GroupMembers(rows, group_col, key) : rows[k].count_for_shipment}

(* C3: in every row of every aggregate table, Total_Revenue and Total_Cost  *)
(* are the sums of revenue and cost over only those rows of the group whose *)
(* count_for_shipment flag is true.                                         *)
C3_TotalsSumOnlyCountedRows ==
    LocationShown =>
        \A group_col \in GroupColumns : \A r \in ShownAggregate(group_col) :
            LET counted == CountedMembers(df.raw_data, group_col, r.key)
            IN  /\ r.Total_Revenue = Total_Revenue(df.raw_data, counted)
                /\ r.Total_Cost = Total_Cost(df.raw_data, counted)

\* the frame's only defects are one duplicated warpId and one missing route
OnlyDuplicateAndMissingRoute(rows) ==
    LET all == 1..Len(rows)
        loads == load_aggregates(rows)
    IN  /\ Cardinality({k \in all : duplicated(rows, k)}) = 1
        /\ Cardinality({k \in all : rows[k].customerRoute \in {NoText, <<>>}}) = 1
        /\ \A k \in all :
            /\ rows[k].customerRoute \notin {NoText, <<>>} =>
                  /\ Contains(rows[k].customerRoute, <<">">>)
                  /\ ~contains_two_spaces(rows[k].customerRoute)
            /\ rows[k].pickZipcode # NoText /\ rows[k].dropZipcode # NoText
            /\ rows[k].shipmentType # Null /\ rows[k].mainShipment # Null
            /\ rows[k].loadId # Null /\ rows[k].warpId # Null
        /\ \A n \in 1..Len(loads) :
            loads[n].revenueAllocationNumber > 0 /\ loads[n].costAllocationNumber > 0

(* C10: on a frame whose only defects are one duplicated warpId and one row *)
(* with a missing customerRoute, run_data_quality_checks returns exactly    *)
(* two findings, Missing Routes and Duplicate Records, each with count 1    *)
(* and a non-empty sample list.                                             *)
C10_ExactlyTwoFindings ==
    (LocationShown /\ OnlyDuplicateAndMissingRoute(df.raw_data)) =>
        LET issues == df.quality_issues
        IN  /\ Len(issues) = 2
            /\ issues[1].name = "Missing Routes" /\ issues[2].name = "Duplicate Records"
            /\ \A n \in 1..2 : issues[n].counts = <<1>> /\ issues[n].samples # <<>>

(* C29: in the profit-by-location report every fetched row's revenue and    *)
(* cost are in exactly one group of each of the three aggregations (by      *)
(* pickup zip, by drop zip, by customer route), so each of the three tables *)
(* has the grand total revenue and cost of the summary metrics, also with   *)
(* rows whose customerRoute is null.                                        *)
C29_EveryRowInOneGroupOfEachTable ==
    LocationShown =>
        \A group_col \in GroupColumns :
            LET table == ShownAggregate(group_col)
                all == 1..Len(df.raw_data)
            IN  /\ \A k \in all :
                    Cardinality({r \in table : df.raw_data[k][group_col] = r.key}) = 1
                /\ SumOver(table, [r \in table |-> r.Total_Revenue], 0)
                        = SumOver(df.df_pick, [r \in df.df_pick |-> r.Total_Revenue], 0)
                /\ SumOver(table, [r \in table |-> r.Total_Cost], 0)
                        = SumOver(df.df_pick, [r \in df.df_pick |-> r.Total_Cost], 0)
                /\ SumOver(table, [r \in table |-> r.Total_Revenue], 0)
                        = Total_Revenue(df.raw_data, all)
                /\ SumOver(table, [r \in table |-> r.Total_Cost], 0)
                        = Total_Cost(df.raw_data, all)

\* the findings whose samples name rows
RowLevelFindings == {"Missing Routes", "Missing Zip Codes", "Missing Metadata"}

\* the rows of the frame a row-level finding is about
OffendingRows(rows, name) ==
    {k \in 1..Len(rows) :
        CASE name = "Missing Routes" -> rows[k].customerRoute \in {NoText, <<>>}
          [] name = "Missing Zip Codes" ->
                rows[k].pickZipcode = NoText \/ rows[k].dropZipcode = NoText
          [] name = "Missing Metadata" ->
                rows[k].shipmentType = Null \/ rows[k].mainShipment = Null}

\* the samples of a finding that are synthetic / plain identifiers
Synthetic(samples) == {n \in 1..Len(samples) : samples[n].prefix = "warpId:"}
PlainIds(samples) == {n \in 1..Len(samples) : samples[n].prefix = ""}

\* the entries of a finding's sample list that are identifiers: every entry
\* of a row-level finding (a loadId or 'warpId:<warpId>'), and the entries of
\* the other findings (loadIds, warpIds, routes) that are not None
Identifiers(finding) ==
    {n \in 1..Len(finding.samples) :
        IF finding.name \in RowLevelFindings THEN TRUE
        ELSE IF finding.name \in {"Route Formatting", "Route Pattern"}
        THEN finding.samples[n] # NoText
        ELSE finding.samples[n] # Null}

(* C21: every finding of run_data_quality_checks carries between 1 and 5    *)
(* example identifiers (an entry that is None is no identifier); the        *)
(* examples of a row-level finding (missing routes, zip codes, metadata)    *)
(* are loadIds of offending rows, as many as there are up to 5, and         *)
(* 'warpId:<warpId>' of offending rows without loadId appear only when      *)
(* fewer than 5 loadIds are available, filling the list up to 5.            *)
C21_OneToFiveExampleIdentifiers ==
    LocationShown =>
        \A f \in 1..Len(df.quality_issues) :
            LET finding == df.quality_issues[f]
                samples == finding.samples
                offending == OffendingRows(df.raw_data, finding.name)
                with_load == {k \in offending : df.raw_data[k].loadId # Null}
                without == offending \ with_load
            IN  /\ Cardinality(Identifiers(finding)) >= 1
                /\ Len(samples) <= SampleSize
                /\ finding.name \in RowLevelFindings =>
                    /\ \A n \in PlainIds(samples) :
                            \E k \in with_load : samples[n].id = df.raw_data[k].loadId
                    /\ \A n \in Synthetic(samples) :
                            \E k \in without : samples[n].id = df.raw_data[k].warpId
                    /\ Cardinality(PlainIds(samples)) = Min(SampleSize, Cardinality(with_load))
                    /\ Synthetic(samples) # {} => Cardinality(with_load) < SampleSize
                    /\ Cardinality(Synthetic(samples)) =
                            Min(SampleSize - Cardinality(PlainIds(samples)), Cardinality(without))
                    /\ \A n \in PlainIds(samples) : \A m \in Synthetic(samples) : n < m

\* the columns the query of get_raw_data selects
FetchedColumns ==
    {"pickZipcode", "dropZipcode", "customerRoute", "loadId", "warpId",
     "shipmentType", "mainShipment", "pickWindowFrom"}

\* the rows the query of get_raw_data returned for the frame in the session:
\* those of the table it ran on, for the dates it was called with
FetchedRows ==
    SelectSeq(df.fetched.source,
              LAMBDA o : raw_where(o, df.fetched.start_date, df.fetched.end_date))

(* C22: get_raw_data only annotates: the frame it returns has the fetched   *)
(* rows, one for one and in order, with the fetched columns, revenue and    *)
(* cost (a NULL amount as 0) unchanged, also for rows with a null loadId    *)
(* and rows flagged false; run_data_quality_checks is run on all of them.   *)
C22_ClassifierOnlyAnnotates ==
    LocationShown =>
        /\ Len(df.raw_data) = Len(FetchedRows)
        /\ \A k \in 1..Len(FetchedRows) :
            /\ \A c \in FetchedColumns : df.raw_data[k][c] = FetchedRows[k][c]
            /\ df.raw_data[k].revenueAllocationNumber =
                    COALESCE(FetchedRows[k].revenueAllocationNumber, 0)
            /\ df.raw_data[k].costAllocationNumber =
                    COALESCE(FetchedRows[k].costAllocationNumber, 0)
        /\ \A name \in RowLevelFindings :
            LET offending == {k \in 1..Len(FetchedRows) :
                                CASE name = "Missing Routes" ->
                                        FetchedRows[k].customerRoute \in {NoText, <<>>}
                                  [] name = "Missing Zip Codes" -> FALSE
                                  [] name = "Missing Metadata" ->
                                        \/ FetchedRows[k].shipmentType = Null
                                        \/ FetchedRows[k].mainShipment = Null}
                listed == {f \in 1..Len(df.quality_issues) : df.quality_issues[f].name = name}
            IN  /\ offending # {} <=> listed # {}
                /\ \A f \in listed :
                        name = "Missing Routes" =>
                            df.quality_issues[f].counts = <<Cardinality(offending)>>

\* three rows fetched and shown: two legs of one load flagged false and a
\* leg without loadId
C22_Witness ==
    /\ LocationShown
    /\ Len(otp_reports) = 3 /\ Len(df.raw_data) = 3
    /\ \E k \in 1..3 : ~df.raw_data[k].count_for_shipment
    /\ \E k \in 1..3 : df.raw_data[k].loadId = Null

-----------------------------------------------------------------------------
(* Timestamps.  A timestamp column holds text: NULL, the empty string, a    *)
(* text that is no timestamp ('Invalid date'), or 'MM/DD/YYYY HH:MM:SS',    *)
(* written Stamp(day, sec) with the day number and the second of the day.   *)
(* A parsed value is a set of at most one instant (seconds); {} is the      *)
(* NULL of SQL and the NaT of pandas.                                       *)

Stamp(day, sec) == [text |-> "m/d/Y H:M:S", day |-> day, sec |-> sec]
NullStamp == [text |-> Null]
EmptyStamp == [text |-> ""]
InvalidDate == [text |-> "Invalid date"]

\* STR_TO_DATE(t, '%m/%d/%Y %H:%i:%s'): NULL unless the text has that form
STR_TO_DATE(t) ==
    IF t.text = "m/d/Y H:M:S" THEN {t.day * SecondsPerDay + t.sec} ELSE {}

\* pd.to_datetime(t, errors='coerce'): NaT unless the text is a timestamp
to_datetime(t) ==
    IF t.text = "m/d/Y H:M:S" THEN {t.day * SecondsPerDay + t.sec} ELSE {}

\* Series.dt.normalize(): midnight of the same day, NaT stays NaT
normalize(x) == {(i \div SecondsPerDay) * SecondsPerDay : i \in x}

\* a > b on datetimes: a comparison with NaT is False
Later(a, b) == \E i \in a : \E j \in b : i > j

\* SQL a <= b: NULL (here: not true) when an operand is NULL
NotAfter(a, b) == \E i \in a : \E j \in b : i <= j

\* t IS NULL OR t = ''
Blank(t) == t.text = Null \/ t.text = ""

\* n/d rounded to the nearest integer, halves away from zero (MySQL ROUND)
RoundHalfUp(n, d) ==
    LET nn == IF d < 0 THEN -n ELSE n
        dd == IF d < 0 THEN -d ELSE d
        a == IF nn < 0 THEN -nn ELSE nn
        q == (2 * a + dd) \div (2 * dd)
    IN  IF nn < 0 THEN -q ELSE q

\* Series.round(2) of a float64 column: numpy multiplies by 100, rounds to
\* the nearest integer (np.rint) and divides by 100; the value in hundredths
round2(x) == IF x.cls = "float64" THEN Finite(DRint(DMul(x, DFromInt(100))), 100) ELSE x

-----------------------------------------------------------------------------
(* ACCL OTP/OTD: "src/ACCL OTP_OTD/app.py" *)

AcclCarrier == "Accelerated USA Inc"

\* the WHERE of fetch_otp_data's query and the date filter applied in pandas
fetch_where(o) ==
    /\ o.pickWindowFrom.text \notin {Null, "", "Invalid date"}
    /\ o.carrierName = AcclCarrier
    /\ o.shipmentStatus = "Complete"
    /\ \E i \in to_datetime(o.pickWindowFrom) :
          i >= StartDay * SecondsPerDay /\ i <= EndDay * SecondsPerDay

\* fetch_otp_data(start_date, end_date); palletCount and transitCost are the
\* columns of the routes row joined on loadId (NULL when there is none)
fetch_otp_data(table) == SelectSeq(table, fetch_where)

\* (actual > scheduled).map({True: 'Late', False: 'On Time'})
OnTimeByDate(actual, scheduled) ==
    IF Later(normalize(actual), normalize(scheduled)) THEN "Late" ELSE "On Time"

\* (actual - scheduled).dt.days alone, without the assignment that sets the
\* negative values to 0
DaysLate_signed(actual, scheduled) ==
    {(i - j) \div SecondsPerDay : i \in normalize(actual), j \in normalize(scheduled)}

\* (actual - scheduled).dt.days with negative values set to 0; NaN ({}) when
\* a side is NaT
DaysLate(actual, scheduled) ==
    {Max(0, (i - j) \div SecondsPerDay) : i \in normalize(actual), j \in normalize(scheduled)}

\* (drop - pick).dt.total_seconds() / (24 * 3600), rounded to 2 places: the
\* whole seconds as a float64, divided by 86400.0
TransitDays(pick, drop) ==
    IF pick = {} \/ drop = {} THEN NaN
    ELSE round2(DDiv(DFromInt(COALESCE(drop, 0) - COALESCE(pick, 0)), DFromInt(SecondsPerDay)))

\* calculate_transit_times(df): one result row per fetched row
calculate_transit_times(frame) ==
    [k \in 1..Len(frame) |->
        LET pickTimeArrived == to_datetime(frame[k].pickTimeArrived)
            dropTimeArrived == to_datetime(frame[k].dropTimeArrived)
            pickWindowFrom  == to_datetime(frame[k].pickWindowFrom)
            dropWindowFrom  == to_datetime(frame[k].dropWindowFrom)
        IN  [Load_ID |-> frame[k].loadId,
             WarpID |-> frame[k].warpId,
             Scheduled_Pickup |-> pickWindowFrom,
             Actual_Pickup |-> pickTimeArrived,
             OTP |-> OnTimeByDate(pickTimeArrived, pickWindowFrom),
             OTP_Days_Late |-> DaysLate(pickTimeArrived, pickWindowFrom),
             Scheduled_Dropoff |-> dropWindowFrom,
             Actual_Dropoff |-> dropTimeArrived,
             OTD |-> OnTimeByDate(dropTimeArrived, dropWindowFrom),
             OTD_Days_Late |-> DaysLate(dropTimeArrived, dropWindowFrom),
             Transit_Days |-> TransitDays(pickTimeArrived, dropTimeArrived),
             Pallet_Count |-> frame[k].palletCount,
             Transit_Cost |-> frame[k].transitCost]]

\* the frame calculate_transit_times leaves in raw_data: it converts the four
\* timestamp columns of its argument in place (lines 87-90)
converted_in_place(frame) ==
    [k \in 1..Len(frame) |->
        [frame[k] EXCEPT !.pickTimeArrived = to_datetime(@),
                         !.dropTimeArrived = to_datetime(@),
                         !.pickWindowFrom = to_datetime(@),
                         !.dropWindowFrom = to_datetime(@)]]

-----------------------------------------------------------------------------
(* Customer OTP/OTD: src/Customer_OTP_OTD/otp_otd_app.py *)

\* pickLocationName IS NULL OR dropLocationName IS NULL OR pick != drop
NotSamePlace(o) ==
    o.pickLocationName = Null \/ o.dropLocationName = Null
        \/ o.pickLocationName # o.dropLocationName

\* the WHERE of the main_shipments CTE of run_otp_otd_query (end exclusive)
main_shipments_where(o, client_name) ==
    /\ o.shipmentStatus = "Complete"
    /\ client_name # Null /\ o.clientName = client_name
    /\ \E i \in STR_TO_DATE(o.pickWindowFrom) :
          i >= StartDay * SecondsPerDay /\ i < EndDay * SecondsPerDay
    /\ o.orderCode # Null /\ o.orderCode # ""
    /\ NotSamePlace(o)
    /\ o.mainShipment = "YES"

\* positions of the main_shipments rows in the table
main_shipments(table, client_name) ==
    {k \in 1..Len(table) : main_shipments_where(table[k], client_name)}

\* positions of the valid_legs rows: every leg of an order of main_shipments
valid_legs(table, client_name) ==
    {k \in 1..Len(table) :
        /\ \E m \in main_shipments(table, client_name) :
              table[m].orderCode = table[k].orderCode
        /\ NotSamePlace(table[k])}

\* ORDER BY STR_TO_DATE(...) ASC puts NULL first
AscKey(t) == IF STR_TO_DATE(t) = {} THEN 0 - 1 ELSE COALESCE(STR_TO_DATE(t), 0)

\* earliest_pickup_delay: the codes the rn = 1 row of an order can carry
\* (NULL when the order has no coded leg; equal sort keys rank in any order)
earliest_pickup_delay(table, client_name, order) ==
    LET coded == {k \in valid_legs(table, client_name) :
                    /\ table[k].orderCode = order
                    /\ table[k].pickupDelayCode \notin {Null, ""}}
    IN  IF coded = {} THEN {Null}
        ELSE {table[k].pickupDelayCode : k \in {j \in coded : \A i \in coded :
                    AscKey(table[j].pickWindowFrom) <= AscKey(table[i].pickWindowFrom)}}

\* latest_dropoff_delay: ORDER BY STR_TO_DATE(dropWindowFrom) DESC, NULL last
latest_dropoff_delay(table, client_name, order) ==
    LET coded == {k \in valid_legs(table, client_name) :
                    /\ table[k].orderCode = order
                    /\ table[k].deliveryDelayCode \notin {Null, ""}}
    IN  IF coded = {} THEN {Null}
        ELSE {table[k].deliveryDelayCode : k \in {j \in coded : \A i \in coded :
                    AscKey(table[j].dropWindowFrom) >= AscKey(table[i].dropWindowFrom)}}

\* COALESCE(NULLIF(code, ''), joined): the values the column can take
CoalesceCode(code, joined) == IF code \notin {Null, ""} THEN {code} ELSE joined

\* TIMESTAMPDIFF(MINUTE, a, d): whole minutes from a to d, truncated towards 0
TIMESTAMPDIFF_MINUTE(a, d) ==
    IF d >= a THEN (d - a) \div 60 ELSE 0 - ((a - d) \div 60)

\* CONCAT(a, ' - ', b): NULL ({}) when an argument is NULL
CONCAT(a, sep, b) ==
    IF a.text = Null \/ b.text = Null THEN {} ELSE {<<a, sep, b>>}

\* ROUND(TIMESTAMPDIFF(MINUTE, arrived, departed) / 60.0, 2) in hundredths of
\* an hour; NULL ({}) when a time is blank or is no timestamp
LoadTime(arrived, departed) ==
    IF Blank(arrived) \/ Blank(departed) THEN {}
    ELSE {RoundHalfUp(TIMESTAMPDIFF_MINUTE(a, d) * 100, 60) :
              a \in STR_TO_DATE(arrived), d \in STR_TO_DATE(departed)}

\* the CASE with an exclusive bound (< instead of <=)
WindowStatus_exclusive(arrived, window_to, no_data) ==
    IF Blank(arrived) THEN no_data
    ELSE IF \E i \in STR_TO_DATE(arrived) : \E j \in STR_TO_DATE(window_to) : i < j
         THEN "On Time"
    ELSE "Late"

\* the OTP_Status / OTD_Status CASE (lines 188-199)
WindowStatus(arrived, window_to, no_data) ==
    IF Blank(arrived) THEN no_data
    ELSE IF NotAfter(STR_TO_DATE(arrived), STR_TO_DATE(window_to)) THEN "On Time"
    ELSE "Late"

OTP_Status(m) == WindowStatus(m.pickTimeArrived, m.pickWindowTo, "No Pickup Data")

OTD_Status(m) == WindowStatus(m.dropTimeArrived, m.dropWindowTo, "No Delivery Data")

\* the rows the final SELECT can produce for one main_shipments row
detail_rows(table, client_name, k) ==
    LET m == table[k]
    IN  {[Order_Code |-> m.orderCode,
          Warp_ID |-> m.warpId,
          Shipment_Type |-> m.shipmentType,
          Pickup_Location |-> m.pickLocationName,
          Delivery_Location |-> m.dropLocationName,
          Pickup_Window |-> CONCAT(m.pickWindowFrom, " - ", m.pickWindowTo),
          Pickup_Arrival |-> m.pickTimeArrived,
          Pickup_Departure |-> m.pickTimeDeparted,
          Pickup_Load_Time |-> LoadTime(m.pickTimeArrived, m.pickTimeDeparted),
          Pickup_Delay_Code |-> pc_code,
          Delivery_Window |-> CONCAT(m.dropWindowFrom, " - ", m.dropWindowTo),
          Delivery_Arrival |-> m.dropTimeArrived,
          Delivery_Departure |-> m.dropTimeDeparted,
          Delivery_Load_Time |-> LoadTime(m.dropTimeArrived, m.dropTimeDeparted),
          Delivery_Delay_Code |-> dl_code,
          OTP_Status |-> OTP_Status(m),
          OTD_Status |-> OTD_Status(m),
          pickWindowFrom |-> m.pickWindowFrom]
         : pc_code \in CoalesceCode(m.pickupDelayCode,
                          earliest_pickup_delay(table, client_name, m.orderCode)),
           dl_code \in CoalesceCode(m.deliveryDelayCode,
                          latest_dropoff_delay(table, client_name, m.orderCode))}

RECURSIVE DetailFrames(_, _, _)
\* the frames whose k-th row is one of the rows the k-th main shipment can give
DetailFrames(table, client_name, positions) ==
    IF positions = <<>> THEN {<<>>}
    ELSE LET n == Len(positions)
         IN  {Append(f, r) :
                 f \in DetailFrames(table, client_name, SubSeq(positions, 1, n - 1)),
                 r \in detail_rows(table, client_name, positions[n])}

\* run_otp_otd_query(client_name, start_date, end_date): the frames it can return
run_otp_otd_query(table, client_name) ==
    DetailFrames(table, client_name, Ascending(main_shipments(table, client_name)))

\* get_clients(): SELECT DISTINCT clientName ... WHERE clientName IS NOT NULL
get_clients(table) == {table[k].clientName : k \in 1..Len(table)} \ {Null}

\* len(df[df[column] == status])
CountStatus(frame, column, status) ==
    Cardinality({k \in 1..Len(frame) : frame[k][column] = status})

\* the WHERE of the main_shipments CTE of get_all_clients_summary
summary_where(o) ==
    /\ o.shipmentStatus = "Complete"
    /\ \E i \in STR_TO_DATE(o.pickWindowFrom) :
          i >= StartDay * SecondsPerDay /\ i < EndDay * SecondsPerDay
    /\ o.orderCode # Null /\ o.orderCode # ""
    /\ NotSamePlace(o)
    /\ o.mainShipment = "YES"
    /\ o.clientName # Null

\* SUM(CASE WHEN arrived IS NOT NULL AND arrived != '' AND
\*   STR_TO_DATE(arrived) <= STR_TO_DATE(window_to) THEN 1 ELSE 0 END)
on_time_case(arrived, window_to) ==
    ~Blank(arrived) /\ NotAfter(STR_TO_DATE(arrived), STR_TO_DATE(window_to))

\* a total that counts only the arrivals that parse as dates
total_case_parsed(arrived) == ~Blank(arrived) /\ STR_TO_DATE(arrived) # {}

\* SUM(CASE WHEN arrived IS NOT NULL AND arrived != '' THEN 1 ELSE 0 END)
total_case(arrived) == ~Blank(arrived)

\* Python's round(x, 1) of a float: the decimal with one place nearest to
\* the exact value of x, halves to even; the value in tenths
python_round1(x) == Finite(RoundToInt(x.neg, BMulSmall(x.m, 10), x.e), 10)

\* round(on_time / total * 100, 1) if total > 0 else 0: the counts are
\* Python ints, the quotient and the product are floats
rate(on_time, total) ==
    IF total > 0
    THEN python_round1(DMul(DDiv(DFromInt(on_time), DFromInt(total)), DFromInt(100)))
    ELSE Finite(0, 1)

\* the row of one client: the SELECT ... GROUP BY clientName and the columns
\* added in lines 86-95
client_summary(table, rows, client) ==
    LET group == {k \in rows : table[k].clientName = client}
        otp_on_time == Cardinality({k \in group :
                          on_time_case(table[k].pickTimeArrived, table[k].pickWindowTo)})
        otp_total == Cardinality({k \in group : total_case(table[k].pickTimeArrived)})
        otd_on_time == Cardinality({k \in group :
                          on_time_case(table[k].dropTimeArrived, table[k].dropWindowTo)})
        otd_total == Cardinality({k \in group : total_case(table[k].dropTimeArrived)})
    IN  [Client_Name |-> client,
         Total_Shipments |-> Cardinality(group),
         OTP_On_Time |-> otp_on_time,
         OTP_Total |-> otp_total,
         OTD_On_Time |-> otd_on_time,
         OTD_Total |-> otd_total,
         OTP_Rate |-> rate(otp_on_time, otp_total),
         OTD_Rate |-> rate(otd_on_time, otd_total)]

\* get_all_clients_summary(start_date, end_date): one row per client of
\* main_shipments (the order of the rows is the database's)
get_all_clients_summary(table) ==
    LET rows == {k \in 1..Len(table) : summary_where(table[k])}
    IN  {client_summary(table, rows, client) : client \in {table[k].clientName : k \in rows}}

\* a <= b on two finite floats
FloatLeq(a, b) == a.num * b.den <= b.num * a.den

SelectionModes == {"Worst by OTD Rate", "Best by OTD Rate", "Select Specific Clients"}

\* positions of the "Number of Clients" slider (5 to 50, 20 to begin with)
NumClients == {5, 20, 50}

\* display_df (lines 248-260): the listings sort_values can give, rows with
\* equal 'OTD Rate %' in any order, cut to head(num_clients) in the two
\* ranking modes
display_listings(summary_df, selection_mode, num_clients, selected_clients) ==
    LET specific == selection_mode = "Select Specific Clients"
        kept == IF specific
                THEN {r \in summary_df : r.Client_Name \in selected_clients}
                ELSE summary_df
        sorted == {q \in SeqsOfSet(kept) :
                     \A i, j \in 1..Len(q) : i < j =>
                        IF selection_mode = "Best by OTD Rate"
                        THEN FloatLeq(q[j].OTD_Rate, q[i].OTD_Rate)
                        ELSE FloatLeq(q[i].OTD_Rate, q[j].OTD_Rate)}
    IN  IF specific THEN sorted
        ELSE {SubSeq(q, 1, IF Len(q) < num_clients THEN Len(q) ELSE num_clients)
                : q \in sorted}

-----------------------------------------------------------------------------
(* The legs the two OTP/OTD reports are run on: OnTimeLeg is a complete     *)
(* main-shipment leg of order A1 picked up and delivered inside its         *)
(* windows; every other leg differs from it in the columns shown.           *)

MaxOtpLegs == 3

OnTimeLeg ==
    [orderCode |-> "A1", loadId |-> "L1", warpId |-> "W1",
     clientName |-> "Acme", carrierName |-> AcclCarrier,
     shipmentStatus |-> "Complete", mainShipment |-> "YES", shipmentType |-> LTL,
     pickLocationName |-> "Shipper", dropLocationName |-> "Store",
     pickWindowFrom |-> Stamp(5, 100), pickWindowTo |-> Stamp(5, 200),
     pickTimeArrived |-> Stamp(5, 150), pickTimeDeparted |-> Stamp(5, 4000),
     pickupDelayCode |-> Null,
     dropWindowFrom |-> Stamp(7, 100), dropWindowTo |-> Stamp(7, 200),
     dropTimeArrived |-> Stamp(7, 150), dropTimeDeparted |-> Stamp(7, 1000),
     deliveryDelayCode |-> Null,
     palletCount |-> {4}, transitCost |-> {250}]

\* what a pickup arrival column can hold, around the window 5/100 .. 5/200
PickArrivals ==
    <<NullStamp, EmptyStamp, InvalidDate, Stamp(4, 150), Stamp(5, 100),
      Stamp(5, 200), Stamp(5, 201), Stamp(6, 0)>>

\* what a drop arrival column can hold, around the window 7/100 .. 7/200
DropArrivals ==
    <<NullStamp, EmptyStamp, InvalidDate, Stamp(6, 150), Stamp(7, 100),
      Stamp(7, 200), Stamp(7, 201), Stamp(8, 0)>>

OtpLegs ==
    <<OnTimeLeg>>
    \o [n \in 1..Len(PickArrivals) |-> [OnTimeLeg EXCEPT !.pickTimeArrived = PickArrivals[n]]]
    \o [n \in 1..Len(DropArrivals) |-> [OnTimeLeg EXCEPT !.dropTimeArrived = DropArrivals[n]]]
    \o <<[OnTimeLeg EXCEPT !.pickWindowTo = NullStamp],
         [OnTimeLeg EXCEPT !.dropWindowTo = InvalidDate],
         [OnTimeLeg EXCEPT !.pickWindowFrom = InvalidDate],
         [OnTimeLeg EXCEPT !.pickWindowFrom = NullStamp],
         [OnTimeLeg EXCEPT !.pickWindowFrom = Stamp(30, 0)],
         [OnTimeLeg EXCEPT !.pickWindowFrom = Stamp(30, 1)],
         [OnTimeLeg EXCEPT !.dropWindowFrom = NullStamp],
         [OnTimeLeg EXCEPT !.pickTimeDeparted = NullStamp, !.dropTimeDeparted = Stamp(7, 100)],
         [OnTimeLeg EXCEPT !.pickupDelayCode = "", !.deliveryDelayCode = ""],
         [OnTimeLeg EXCEPT !.pickupDelayCode = "WX", !.deliveryDelayCode = "WX"],
         [OnTimeLeg EXCEPT !.mainShipment = "NO", !.warpId = "W2",
                           !.pickupDelayCode = "WX", !.deliveryDelayCode = "WX"],
         [OnTimeLeg EXCEPT !.mainShipment = "NO", !.warpId = "W3", !.shipmentStatus = "Pending",
                           !.pickupDelayCode = "TRAFFIC", !.deliveryDelayCode = "TRAFFIC"],
         [OnTimeLeg EXCEPT !.shipmentStatus = "Pending"],
         [OnTimeLeg EXCEPT !.clientName = Null, !.carrierName = "Other Carrier"],
         [OnTimeLeg EXCEPT !.clientName = "Zeta", !.orderCode = "B2", !.loadId = "L2",
                           !.palletCount = {}, !.transitCost = {}],
         [OnTimeLeg EXCEPT !.orderCode = Null],
         [OnTimeLeg EXCEPT !.orderCode = ""],
         [OnTimeLeg EXCEPT !.dropLocationName = "Shipper"],
         [OnTimeLeg EXCEPT !.dropLocationName = Null]>>

\* position of a leg in OtpLegs: the table is kept in this order
OtpRank(o) == CHOOSE k \in 1..Len(OtpLegs) : OtpLegs[k] = o

InitOtp ==
    /\ app \in {"accl", "customer"}
    /\ pc = "idle"
    /\ otp_reports = <<>>
    /\ sidebar = Unused
    /\ df = Unused

\* a row arrives in otp_reports
InsertOtpLeg ==
    /\ app \in {"accl", "customer"} /\ pc = "idle"
    /\ Len(otp_reports) < MaxOtpLegs
    /\ \E n \in 1..Len(OtpLegs) :
        /\ IF otp_reports = <<>> THEN TRUE
           ELSE OtpRank(otp_reports[Len(otp_reports)]) <= n
        /\ otp_reports' = Append(otp_reports, OtpLegs[n])
    /\ UNCHANGED <<app, pc, sidebar, df>>

\* "src/ACCL OTP_OTD/app.py" main(), "Fetch Data" clicked (lines 156-199)
AcclFetch ==
    /\ app = "accl" /\ pc = "idle"
    /\ LET raw_data == fetch_otp_data(otp_reports)
           transit_data == calculate_transit_times(raw_data)
       IN  /\ df' = [raw_data |-> converted_in_place(raw_data),
                     transit_data |-> transit_data]
           /\ pc' = IF transit_data # <<>> THEN "accl_shown" ELSE "accl_warning"
    /\ UNCHANGED <<app, otp_reports, sidebar>>

\* otp_otd_app.py, page "Client Detail", "Run Report" clicked (lines 300-318)
RunReport ==
    /\ app = "customer" /\ pc = "idle"
    /\ \E selected_client \in (IF get_clients(otp_reports) = {} THEN {Null}
                               ELSE get_clients(otp_reports)) :
       \E frame \in run_otp_otd_query(otp_reports, selected_client) :
        /\ sidebar' = [page |-> "Client Detail", selected_client |-> selected_client]
        /\ IF Len(frame) = 0
           THEN /\ df' = [df |-> frame]
                /\ pc' = "detail_warning"
           ELSE /\ df' = [df |-> frame,
                          otp_on_time |-> CountStatus(frame, "OTP_Status", "On Time"),
                          otp_late |-> CountStatus(frame, "OTP_Status", "Late"),
                          otd_on_time |-> CountStatus(frame, "OTD_Status", "On Time"),
                          otd_late |-> CountStatus(frame, "OTD_Status", "Late")]
                /\ pc' = "detail_shown"
    /\ UNCHANGED <<app, otp_reports>>

\* lines 245-298 for the summary fetched.  On a result without rows
\* df.apply(axis=1) returns a frame, not a column, and its assignment in line
\* 94 raises or not with the pandas build; the warning of line 246 is what
\* is shown when it does not.  The multiselect holds its default, every
\* client, or nothing.
ShowSummary(summary_df, clients) ==
    /\ sidebar' = [page |-> "Client Summary"]
    /\ IF summary_df = {}
       THEN /\ df' = [summary_df |-> summary_df]
            /\ pc' \in {"summary_warning", "summary_exception"}
       ELSE \E selection_mode \in SelectionModes :
            \E selected_clients \in (IF selection_mode = "Select Specific Clients"
                                     THEN {clients, {}} ELSE {clients}) :
            \E num_clients \in NumClients :
            \E display_df \in display_listings(summary_df, selection_mode, num_clients,
                                                selected_clients) :
                /\ df' = [summary_df |-> summary_df, display_df |-> display_df]
                /\ pc' = "summary_shown"

\* otp_otd_app.py, page "Client Summary", "Generate Summary" clicked (lines
\* 241-298)
GenerateSummary ==
    /\ app = "customer" /\ pc = "idle"
    /\ ShowSummary(get_all_clients_summary(otp_reports), get_clients(otp_reports))
    /\ UNCHANGED <<app, otp_reports>>

NextOtp == InsertOtpLeg \/ AcclFetch \/ RunReport \/ GenerateSummary

SpecOtp == InitOtp /\ [][NextOtp]_vars

-----------------------------------------------------------------------------
(* The ACCL report across reruns: main() of "src/ACCL OTP_OTD/app.py" is    *)
(* run again on every change of a widget; st.session_state outlives the     *)
(* runs.  sidebar holds the two date inputs, df the session state and the   *)
(* page the last run drew.                                                  *)

\* the filter of fetch_otp_data(start_date, end_date) for the dates given
fetch_where_between(o, start_date, end_date) ==
    /\ o.pickWindowFrom.text \notin {Null, "", "Invalid date"}
    /\ o.carrierName = AcclCarrier
    /\ o.shipmentStatus = "Complete"
    /\ \E i \in to_datetime(o.pickWindowFrom) :
          i >= start_date * SecondsPerDay /\ i <= end_date * SecondsPerDay

\* fetch_otp_data(str(start_date), str(end_date))
fetch_otp_data_between(table, start_date, end_date) ==
    SelectSeq(table, LAMBDA o : fetch_where_between(o, start_date, end_date))

\* the days the two date inputs can be set to
DateChoices == {StartDay, 6, EndDay}

\* the tables the session is run on: pickups on day 5 and on day 30
SessionLegs ==
    <<OnTimeLeg,
      [OnTimeLeg EXCEPT !.pickWindowFrom = Stamp(30, 0), !.loadId = "L2"],
      [OnTimeLeg EXCEPT !.pickTimeArrived = Stamp(6, 0), !.warpId = "W2"]>>

SessionTables ==
    {<<>>} \cup {<<SessionLegs[n]>> : n \in 1..3}
    \cup {<<SessionLegs[n], SessionLegs[m]>> : n, m \in 1..3}

\* main() from line 150 on, for the session state `session` (a stored frame is
\* a one-element set), the dates of the two inputs, the "Fetch Data" button
\* clicked or not, and the fetch succeeding or raising: the session state
\* main() leaves and the page it draws (`main` names a column of the legs)
accl_main(table, session, start_date, end_date, clicked, ok) ==
    IF start_date > end_date
    THEN [session |-> session, page |-> [kind |-> "date_error"]]
    ELSE IF clicked /\ ~ok
    THEN [session |-> session, page |-> [kind |-> "fetch_error"]]
    ELSE LET raw_data == fetch_otp_data_between(table, start_date, end_date)
             transit_data == calculate_transit_times(raw_data)
             state == IF clicked
                      THEN [raw_data |-> {converted_in_place(raw_data)},
                            transit_data |-> {transit_data}]
                      ELSE session
         IN  [session |-> state,
              page |-> IF state.transit_data = {} THEN [kind |-> "info"]
                       ELSE IF state.transit_data = {<<>>} THEN [kind |-> "warning"]
                       ELSE [kind |-> "report",
                             transit_df |-> CHOOSE f \in state.transit_data : TRUE,
                             file_name |-> <<start_date, end_date>>]]

InitSession ==
    /\ app = "accl"
    /\ pc = "session"
    /\ otp_reports \in SessionTables
    /\ sidebar = [start_date |-> StartDay, end_date |-> EndDay]
    /\ df = [session |-> [raw_data |-> {}, transit_data |-> {}], page |-> [kind |-> "info"]]

\* a date input is changed (lines 144-148): the script reruns
ChangeDates ==
    /\ app = "accl" /\ pc = "session"
    /\ \E start_date, end_date \in DateChoices :
        /\ <<start_date, end_date>> # <<sidebar.start_date, sidebar.end_date>>
        /\ sidebar' = [start_date |-> start_date, end_date |-> end_date]
        /\ df' = accl_main(otp_reports, df.session, start_date, end_date, FALSE, TRUE)
    /\ UNCHANGED <<app, pc, otp_reports>>

\* "Fetch Data" is clicked (line 155): the script reruns with the button set
ClickFetch ==
    /\ app = "accl" /\ pc = "session"
    /\ \E ok \in BOOLEAN :
        df' = accl_main(otp_reports, df.session, sidebar.start_date, sidebar.end_date, TRUE, ok)
    /\ UNCHANGED <<app, pc, otp_reports, sidebar>>

NextSession == ChangeDates \/ ClickFetch

SpecSession == InitSession /\ [][NextSession]_vars

(* C27: after any sequence of date changes, fetch clicks and reruns, the    *)
(* report the page shows, and offers for download under a file name built   *)
(* from the selected dates, is the report of a fetch for the selected       *)
(* dates.                                                                   *)
C27_ShownReportIsOfSelectedDates ==
    (app = "accl" /\ pc = "session" /\ df.page.kind = "report") =>
        /\ df.page.file_name = <<sidebar.start_date, sidebar.end_date>>
        /\ df.page.transit_df =
              calculate_transit_times(
                  fetch_otp_data_between(otp_reports, sidebar.start_date, sidebar.end_date))

-----------------------------------------------------------------------------
(* Properties of the two OTP/OTD reports *)

AcclShown == app = "accl" /\ pc = "accl_shown"

DetailShown == app = "customer" /\ pc = "detail_shown"

\* calculate_transit_times: no parsed arrival means a status other than
\* 'On Time' and 'Late'
AcclNoArrivalNoStatus ==
    AcclShown => \A k \in 1..Len(df.transit_data) :
        LET r == df.transit_data[k]
        IN  /\ r.Actual_Pickup = {} => r.OTP \notin {"On Time", "Late"}
            /\ r.Actual_Dropoff = {} => r.OTD \notin {"On Time", "Late"}

\* run_otp_otd_query: an arrival that is NULL, empty or no timestamp means
\* the No-Data status
DetailNoArrivalNoData ==
    DetailShown => \A k \in 1..Len(df.df) :
        LET r == df.df[k]
        IN  /\ STR_TO_DATE(r.Pickup_Arrival) = {} => r.OTP_Status = "No Pickup Data"
            /\ STR_TO_DATE(r.Delivery_Arrival) = {} => r.OTD_Status = "No Delivery Data"

(* C4: a leg with no actual arrival (NULL, empty or unparseable arrival     *)
(* timestamp) gets the No-Data status and never 'On Time' or 'Late', for    *)
(* OTP and OTD, in calculate_transit_times and in run_otp_otd_query.        *)
C4_NoArrivalIsNoData == AcclNoArrivalNoStatus /\ DetailNoArrivalNoData

\* the window-to bound of one side of a detail row, parsed
WindowTo(r, side) ==
    LET window == IF side = "pick" THEN r.Pickup_Window ELSE r.Delivery_Window
    IN  UNION {STR_TO_DATE(w[3]) : w \in window}

DetailArrival(r, side) ==
    STR_TO_DATE(IF side = "pick" THEN r.Pickup_Arrival ELSE r.Delivery_Arrival)

DetailStatus(r, side) == IF side = "pick" THEN r.OTP_Status ELSE r.OTD_Status

Sides == {"pick", "drop"}

(* C5: the on-time boundary is inclusive.  In run_otp_otd_query an arrival  *)
(* exactly at pickWindowTo / dropWindowTo is 'On Time' and one second later *)
(* is 'Late'; in calculate_transit_times an arrival on the scheduled        *)
(* calendar day is 'On Time' and an arrival on a later day is 'Late'.       *)
C5_BoundaryInclusive ==
    /\ DetailShown => \A k \in 1..Len(df.df) : \A side \in Sides :
          \A a \in DetailArrival(df.df[k], side) : \A b \in WindowTo(df.df[k], side) :
              /\ a = b => DetailStatus(df.df[k], side) = "On Time"
              /\ a = b + 1 => DetailStatus(df.df[k], side) = "Late"
    /\ AcclShown => \A k \in 1..Len(df.transit_data) :
          LET r == df.transit_data[k]
          IN  /\ \A a \in r.Actual_Pickup : \A b \in r.Scheduled_Pickup :
                    /\ a \div SecondsPerDay = b \div SecondsPerDay => r.OTP = "On Time"
                    /\ a \div SecondsPerDay > b \div SecondsPerDay => r.OTP = "Late"
              /\ \A a \in r.Actual_Dropoff : \A b \in r.Scheduled_Dropoff :
                    /\ a \div SecondsPerDay = b \div SecondsPerDay => r.OTD = "On Time"
                    /\ a \div SecondsPerDay > b \div SecondsPerDay => r.OTD = "Late"

\* a shown detail frame with a pickup exactly at pickWindowTo (On Time) and a
\* delivery one second after dropWindowTo (Late)
C5_Witness ==
    /\ DetailShown
    /\ \E k \in 1..Len(df.df) :
          /\ DetailArrival(df.df[k], "pick") # {}
          /\ DetailArrival(df.df[k], "pick") = WindowTo(df.df[k], "pick")
          /\ df.df[k].OTP_Status = "On Time"
    /\ \E k \in 1..Len(df.df) :
          /\ \E b \in WindowTo(df.df[k], "drop") : DetailArrival(df.df[k], "drop") = {b + 1}
          /\ df.df[k].OTD_Status = "Late"

\* the calendar day of an instant
CalendarDay(i) == i \div SecondsPerDay

\* max(0, calendar-day difference) of an actual and a scheduled instant
FlooredDayDifference(a, b) == IF CalendarDay(a) > CalendarDay(b) THEN CalendarDay(a) - CalendarDay(b) ELSE 0

(* C14: in calculate_transit_times, for every row with both an actual       *)
(* arrival and a scheduled timestamp, 'OTP Days Late' (resp. 'OTD Days      *)
(* Late') is max(0, difference in calendar days between the actual and the  *)
(* scheduled date); it is never negative and an early arrival gives 0.      *)
C14_DaysLateFlooredDayDifference ==
    AcclShown => \A k \in 1..Len(df.transit_data) :
        LET r == df.transit_data[k]
        IN  /\ \A a \in r.Actual_Pickup : \A b \in r.Scheduled_Pickup :
                  /\ r.OTP_Days_Late = {FlooredDayDifference(a, b)}
                  /\ a < b => r.OTP_Days_Late = {0}
            /\ \A a \in r.Actual_Dropoff : \A b \in r.Scheduled_Dropoff :
                  /\ r.OTD_Days_Late = {FlooredDayDifference(a, b)}
                  /\ a < b => r.OTD_Days_Late = {0}
            /\ \A n \in r.OTP_Days_Late \cup r.OTD_Days_Late : n >= 0

\* a shown frame with a pickup that arrived the day before the scheduled day
\* (0 days late) and a delivery that arrived the day after (1 day late)
C14_Witness ==
    /\ AcclShown
    /\ \E k \in 1..Len(df.transit_data) :
          LET r == df.transit_data[k]
          IN  /\ \E a \in r.Actual_Pickup : \E b \in r.Scheduled_Pickup : CalendarDay(a) < CalendarDay(b)
              /\ r.OTP_Days_Late = {0}
    /\ \E k \in 1..Len(df.transit_data) :
          LET r == df.transit_data[k]
          IN  /\ \E a \in r.Actual_Dropoff : \E b \in r.Scheduled_Dropoff : CalendarDay(a) > CalendarDay(b)
              /\ r.OTD_Days_Late = {1}

SummaryShown == app = "customer" /\ pc = "summary_shown"

\* the rows of main_shipments of one client
ClientShipments(client) ==
    {k \in 1..Len(otp_reports) :
        summary_where(otp_reports[k]) /\ otp_reports[k].clientName = client}

\* the rows of a client with a recorded arrival on one side: a timestamp
RecordedArrivals(client, side) ==
    {k \in ClientShipments(client) :
        STR_TO_DATE(IF side = "pick" THEN otp_reports[k].pickTimeArrived
                    ELSE otp_reports[k].dropTimeArrived) # {}}

\* the rows of a client that arrived on time on one side
OnTimeArrivals(client, side) ==
    {k \in RecordedArrivals(client, side) :
        IF side = "pick"
        THEN NotAfter(STR_TO_DATE(otp_reports[k].pickTimeArrived),
                      STR_TO_DATE(otp_reports[k].pickWindowTo))
        ELSE NotAfter(STR_TO_DATE(otp_reports[k].dropTimeArrived),
                      STR_TO_DATE(otp_reports[k].dropWindowTo))}

\* x is n / d * 100 to one decimal place, 0 when d is 0
IsPercentOf(x, n, d) ==
    IF d = 0 THEN x.num = 0 ELSE x.num * 10 = RoundHalfEven(n * 1000, d) * x.den

(* C16: in get_all_clients_summary the OTP (resp. OTD) rate of every client *)
(* is the on-time count over the number of rows with a recorded pickup      *)
(* (resp. drop) arrival, times 100 (shown to one decimal place); rows       *)
(* with no recorded arrival are in neither count; the rate is 0 when no row *)
(* has a recorded arrival; the rate lies in [0, 100].                       *)
C16_RateOverRecordedArrivals ==
    SummaryShown => \A r \in df.summary_df :
        /\ IsPercentOf(r.OTP_Rate, Cardinality(OnTimeArrivals(r.Client_Name, "pick")),
                       Cardinality(RecordedArrivals(r.Client_Name, "pick")))
        /\ IsPercentOf(r.OTD_Rate, Cardinality(OnTimeArrivals(r.Client_Name, "drop")),
                       Cardinality(RecordedArrivals(r.Client_Name, "drop")))
        /\ \A x \in {r.OTP_Rate, r.OTD_Rate} : x.num >= 0 /\ x.num <= 100 * x.den

\* the figures of one summary row against one detail frame of the same client
SummaryAgrees(r, frame) ==
    /\ r.Total_Shipments = Len(frame)
    /\ r.OTP_On_Time = CountStatus(frame, "OTP_Status", "On Time")
    /\ r.OTP_Total = CountStatus(frame, "OTP_Status", "On Time")
                        + CountStatus(frame, "OTP_Status", "Late")
    /\ r.OTD_On_Time = CountStatus(frame, "OTD_Status", "On Time")
    /\ r.OTD_Total = CountStatus(frame, "OTD_Status", "On Time")
                        + CountStatus(frame, "OTD_Status", "Late")

\* C30: the summary and the detail report of the same table and date range
\* agree client by client.  A client's summary row has Total Shipments equal
\* to the number of detail rows, OTP/OTD On Time equal to the number of detail
\* rows of status 'On Time', and OTP/OTD Total equal to the number of detail
\* rows of status 'On Time' or 'Late' (a recorded arrival against a missing or
\* unparseable window-to bound is 'Late' and counted in the total); a client
\* of the selector without a summary row has a detail report without rows.
C30_SummaryAgreesWithDetail ==
    /\ SummaryShown =>
          /\ \A r \in df.summary_df :
                \A frame \in run_otp_otd_query(otp_reports, r.Client_Name) :
                    SummaryAgrees(r, frame)
          /\ \A client \in get_clients(otp_reports) :
                (\A r \in df.summary_df : r.Client_Name # client)
                    => run_otp_otd_query(otp_reports, client) = {<<>>}
    /\ DetailShown =>
          \E r \in get_all_clients_summary(otp_reports) :
              /\ r.Client_Name = sidebar.selected_client
              /\ SummaryAgrees(r, df.df)

\* a summary shown for a client with a pickup arrival recorded against a
\* missing window-to bound and a delivery arrival that does not parse: both
\* are in the totals and in no on-time count, and 'Late' in the detail report
C30_Witness ==
    /\ SummaryShown
    /\ \E r \in df.summary_df :
          /\ r.OTP_Total > r.OTP_On_Time /\ r.OTD_Total > r.OTD_On_Time
          /\ r.OTP_On_Time > 0
          /\ \E k \in ClientShipments(r.Client_Name) :
                /\ otp_reports[k].pickWindowTo = NullStamp
                /\ ~Blank(otp_reports[k].pickTimeArrived)
          /\ \E k \in ClientShipments(r.Client_Name) :
                otp_reports[k].dropTimeArrived = InvalidDate
          /\ \E frame \in run_otp_otd_query(otp_reports, r.Client_Name) :
                /\ Len(frame) = r.Total_Shipments
                /\ CountStatus(frame, "OTP_Status", "Late") > 0
                /\ CountStatus(frame, "OTD_Status", "Late") > 0

-----------------------------------------------------------------------------
(* KITH shipments: src/kith_shipments_app.py *)

MaxKithLegs == 3

KithClient == "KITH LOGISTICS LLC"

\* STR_TO_DATE(t, '%m/%d/%Y'): the date (a day number) at the head of the
\* text, NULL ({}) when the text does not start with a date
STR_TO_DATE_mdY(t) == IF t.text = "m/d/Y H:M:S" THEN {t.day} ELSE {}

\* the WHERE of get_shipments_data's query
shipments_where(o) ==
    /\ o.clientName = KithClient
    /\ o.shipmentStatus = "Complete"
    /\ ~Blank(o.pickDateArrived)
    /\ \E day \in STR_TO_DATE_mdY(o.pickDateArrived) : day >= StartDay /\ day <= EndDay

\* ORDER BY orderCode, STR_TO_DATE(pickDateArrived, '%m/%d/%Y') DESC
ShipmentsBefore(a, b) ==
    \/ TextRank(a.orderCode) < TextRank(b.orderCode)
    \/ /\ a.orderCode = b.orderCode
       /\ COALESCE(STR_TO_DATE_mdY(a.pickDateArrived), 0)
              >= COALESCE(STR_TO_DATE_mdY(b.pickDateArrived), 0)

\* get_shipments_data(start_date, end_date): the frames the query can return
\* (rows that compare equal under the ORDER BY come in any order)
get_shipments_data(table) ==
    LET kept == {k \in 1..Len(table) : shipments_where(table[k])}
    IN  {[n \in 1..Len(p) |->
            [orderCode |-> table[p[n]].orderCode,
             dropLocationName |-> table[p[n]].dropLocationName,
             pickDateArrived |-> STR_TO_DATE_mdY(table[p[n]].pickDateArrived)]]
         : p \in {q \in SeqsOfSet(kept) :
                    \A i, j \in 1..Len(q) : i < j => ShipmentsBefore(table[q[i]], table[q[j]])}}

\* df['pickDateArrived'] = pd.to_datetime(df['pickDateArrived']): midnight of the date
dates_to_datetime(frame) ==
    [k \in 1..Len(frame) |->
        [frame[k] EXCEPT !.pickDateArrived = {day * SecondsPerDay : day \in @}]]

\* is_warehouse(location)
is_warehouse(location) ==
    IF location = NoText \/ location = <<>> THEN FALSE
    ELSE StartsWith(location, <<"W", "T", "C", "H", "-">>)

\* group['pickDateArrived'].max(): NaT is skipped
max_date(group) ==
    LET dates == UNION {group[k].pickDateArrived : k \in 1..Len(group)}
    IN  {d \in dates : \A e \in dates : e <= d}

NotWarehouse(row) == ~is_warehouse(row.dropLocationName)

\* what iloc[0] raises on a frame without rows
IndexError == [error |-> "IndexError"]

\* deduplicate_order with the earliest date in place of the latest
deduplicate_order_earliest(group) ==
    LET dates == UNION {group[k].pickDateArrived : k \in 1..Len(group)}
        min_date == {d \in dates : \A e \in dates : d <= e}
        IsLatest(row) == row.pickDateArrived # {} /\ row.pickDateArrived = min_date
        latest_rows == SelectSeq(group, IsLatest)
        non_warehouse == SelectSeq(latest_rows, NotWarehouse)
    IN  IF Len(latest_rows) = 1 THEN latest_rows[1]
        ELSE IF Len(non_warehouse) >= 1 THEN non_warehouse[1]
        ELSE IF Len(latest_rows) >= 1 THEN latest_rows[1]
        ELSE IndexError

\* deduplicate_order without the preference for non-warehouse rows
deduplicate_order_first_latest(group) ==
    LET IsLatest(row) == row.pickDateArrived # {} /\ row.pickDateArrived = max_date(group)
        latest_rows == SelectSeq(group, IsLatest)
    IN  IF Len(latest_rows) >= 1 THEN latest_rows[1] ELSE IndexError

\* deduplicate_order(group).  A comparison with NaT is never true (line 93),
\* so a group without a date has no latest row and iloc[0] of line 105 raises.
deduplicate_order(group) ==
    LET IsLatest(row) == row.pickDateArrived # {} /\ row.pickDateArrived = max_date(group)
        latest_rows == SelectSeq(group, IsLatest)
        non_warehouse == SelectSeq(latest_rows, NotWarehouse)
    IN  IF Len(latest_rows) = 1 THEN latest_rows[1]
        ELSE IF Len(non_warehouse) >= 1 THEN non_warehouse[1]
        ELSE IF Len(latest_rows) >= 1 THEN latest_rows[1]
        ELSE IndexError

\* the rows of one group of df.groupby('orderCode'), in frame order
OrderGroup(frame, order) ==
    LET InGroup(row) == row.orderCode = order
    IN  SelectSeq(frame, InGroup)

\* the deduplication with every row of the latest date kept, in place of
\* the one row deduplicate_order returns
deduplicate_latest_rows(frame) ==
    LET KeepRow(row) ==
            /\ row.orderCode # Null
            /\ row.pickDateArrived # {}
            /\ row.pickDateArrived = max_date(OrderGroup(frame, row.orderCode))
    IN  SelectSeq(frame, KeepRow)

\* df.groupby('orderCode', group_keys=False).apply(deduplicate_order)
\*   .reset_index(drop=True): one row per non-NaN key, in key order; an
\* exception raised for a group is raised by apply
deduplicate(frame) ==
    LET keys == {frame[k].orderCode : k \in 1..Len(frame)} \ {Null}
        ranks == Ascending({TextRank(c) : c \in keys})
        rows == [n \in 1..Len(ranks) |->
                    deduplicate_order(OrderGroup(frame, Collation[ranks[n]]))]
    IN  IF \E n \in 1..Len(rows) : rows[n] = IndexError THEN <<IndexError>> ELSE rows

\* dt.strftime('%Y-%m-%d')
strftime_Ymd(x) == {[text |-> "Y-m-d", day |-> i \div SecondsPerDay] : i \in x}

\* shipments_df (lines 110-117): the listings sort_values can give, rows with
\* equal 'Pickup Date' in any order
shipments_listings(df_deduped) ==
    LET rows == [k \in 1..Len(df_deduped) |->
                    [Shipment_ID |-> df_deduped[k].orderCode,
                     Delivery_Location |-> df_deduped[k].dropLocationName,
                     Pickup_Date |-> strftime_Ymd(df_deduped[k].pickDateArrived)]]
        DayOf(row) == COALESCE({t.day : t \in row.Pickup_Date}, 0)
    IN  {[n \in 1..Len(p) |-> rows[p[n]]]
         : p \in {q \in SeqsOfSet(1..Len(rows)) :
                    \A i, j \in 1..Len(q) : i < j => DayOf(rows[q[i]]) >= DayOf(rows[q[j]])}}

\* pivot_df (lines 120-127): distinct orders per non-NaN delivery location,
\* the largest count first, equal counts in any order
pivot_listings(df_deduped) ==
    LET keys == {df_deduped[k].dropLocationName : k \in 1..Len(df_deduped)} \ {NoText}
        Count(loc) == Cardinality({df_deduped[k].orderCode :
                          k \in {j \in 1..Len(df_deduped) : df_deduped[j].dropLocationName = loc}}
                          \ {Null})
    IN  {[n \in 1..Len(p) |-> [Delivery_Location |-> p[n], Shipment_Count |-> Count(p[n])]]
         : p \in {q \in SeqsOfSet(keys) :
                    \A i, j \in 1..Len(q) : i < j => Count(q[i]) >= Count(q[j])}}

(* The rows the KITH report is run on *)

WTCH_LAX_9 == <<"W", "T", "C", "H", "-", "L", "A", "X", "-", "9">>
Kith_Store == <<"K", "i", "t", "h", " ", "S", "o", "H", "o">>

KithLeg(order, location, date) ==
    [orderCode |-> order, dropLocationName |-> location, pickDateArrived |-> date,
     clientName |-> KithClient, shipmentStatus |-> "Complete"]

KithLegs ==
    <<KithLeg("A1", WTCH_LAX_9, Stamp(5, 100)), KithLeg("A1", WTCH_LAX_9, Stamp(6, 100)),
      KithLeg("A1", Kith_Store, Stamp(5, 100)), KithLeg("A1", Kith_Store, Stamp(6, 100)),
      KithLeg("A1", NoText, Stamp(5, 100)),     KithLeg("A1", NoText, Stamp(6, 100)),
      KithLeg("A1", <<>>, Stamp(5, 100)),       KithLeg("A1", <<>>, Stamp(6, 100)),
      KithLeg("B2", WTCH_LAX_9, Stamp(5, 100)), KithLeg("B2", WTCH_LAX_9, Stamp(6, 100)),
      KithLeg("B2", Kith_Store, Stamp(5, 100)), KithLeg("B2", Kith_Store, Stamp(6, 100)),
      KithLeg("B2", NoText, Stamp(5, 100)),     KithLeg("B2", NoText, Stamp(6, 100)),
      KithLeg("B2", <<>>, Stamp(5, 100)),       KithLeg("B2", <<>>, Stamp(6, 100)),
      KithLeg("A1", WTCH_LAX_9, Stamp(6, 900)),
      KithLeg("A1", <<"w", "t", "c", "h", "-", "l", "a", "x">>, Stamp(6, 100)),
      KithLeg("A1", <<"W", "T", "C", "H">>, Stamp(6, 100)),
      KithLeg(Null, Kith_Store, Stamp(6, 100)),
      KithLeg("A1", Kith_Store, NullStamp),
      KithLeg("A1", Kith_Store, EmptyStamp),
      KithLeg("A1", Kith_Store, InvalidDate),
      KithLeg("A1", Kith_Store, Stamp(40, 0)),
      [KithLeg("A1", Kith_Store, Stamp(6, 100)) EXCEPT !.clientName = "Acme"],
      [KithLeg("A1", Kith_Store, Stamp(6, 100)) EXCEPT !.shipmentStatus = "Pending"]>>

\* position of a leg in KithLegs: the table is kept in this order
KithRank(o) == CHOOSE k \in 1..Len(KithLegs) : KithLegs[k] = o

InitKith ==
    /\ app = "kith"
    /\ pc = "idle"
    /\ otp_reports = <<>>
    /\ sidebar = Unused
    /\ df = Unused

\* a row arrives in otp_reports
InsertKithLeg ==
    /\ app = "kith" /\ pc = "idle"
    /\ Len(otp_reports) < MaxKithLegs
    /\ \E n \in 1..Len(KithLegs) :
        /\ IF otp_reports = <<>> THEN TRUE
           ELSE KithRank(otp_reports[Len(otp_reports)]) <= n
        /\ otp_reports' = Append(otp_reports, KithLegs[n])
    /\ UNCHANGED <<app, pc, sidebar, df>>

\* one run of the script after the password check (lines 70-127 of the script): load, stop
\* with a warning when empty, else deduplicate and build the two tables
KithRun ==
    /\ app = "kith" /\ pc = "idle"
    /\ \E fetched \in get_shipments_data(otp_reports) :
        IF fetched = <<>>
        THEN /\ df' = [df |-> fetched]
             /\ pc' = "kith_warning"
        ELSE LET frame == dates_to_datetime(fetched)
                 df_deduped == deduplicate(frame)
             IN  IF df_deduped = <<IndexError>>
                 THEN /\ df' = [df |-> frame]
                      /\ pc' = "kith_exception"
                 ELSE \E shipments_df \in shipments_listings(df_deduped) :
                      \E pivot_df \in pivot_listings(df_deduped) :
                         /\ df' = [df |-> frame, df_deduped |-> df_deduped,
                                   shipments_df |-> shipments_df, pivot_df |-> pivot_df]
                         /\ pc' = "kith_shown"
    /\ UNCHANGED <<app, otp_reports, sidebar>>

NextKith == InsertKithLeg \/ KithRun

SpecKith == InitKith /\ [][NextKith]_vars

-----------------------------------------------------------------------------
(* Properties of the KITH report *)

KithShown == app = "kith" /\ pc = "kith_shown"

\* the order codes of the loaded frame
LoadedOrders == {df.df[k].orderCode : k \in 1..Len(df.df)} \ {Null}

\* the positions of an order's rows in df_deduped
DedupedOf(order) == {n \in 1..Len(df.df_deduped) : df.df_deduped[n].orderCode = order}

\* the rows of an order that carry its latest pickDateArrived
TiedAtMax(order) ==
    LET group == OrderGroup(df.df, order)
    IN  {k \in 1..Len(group) : \A j \in 1..Len(group) :
            \A a \in group[k].pickDateArrived : \A b \in group[j].pickDateArrived : a >= b}

(* C6: for every order of the loaded frame the deduplicated table holds     *)
(* exactly one row; it is one of the order's input rows and carries the     *)
(* order's maximum pickDateArrived; the table has no other rows.            *)
C6_OneLatestRowPerOrder ==
    KithShown =>
        /\ Len(df.df_deduped) = Cardinality(LoadedOrders)
        /\ \A order \in LoadedOrders :
            LET group == OrderGroup(df.df, order)
            IN  /\ Cardinality(DedupedOf(order)) = 1
                /\ \A n \in DedupedOf(order) :
                    /\ \E k \in 1..Len(group) : group[k] = df.df_deduped[n]
                    /\ \A k \in 1..Len(group) :
                        \A a \in df.df_deduped[n].pickDateArrived :
                            \A b \in group[k].pickDateArrived : a >= b

\* two orders are shown and one of them has rows of two different dates
C6_Witness ==
    /\ KithShown
    /\ Cardinality(LoadedOrders) = 2
    /\ \E order \in LoadedOrders :
          LET group == OrderGroup(df.df, order)
          IN  \E j, k \in 1..Len(group) : group[j].pickDateArrived # group[k].pickDateArrived

(* C7: when two or more rows of an order tie at the maximum pickDateArrived *)
(* and one of them has a non-warehouse drop location, the row kept for the  *)
(* order has a non-warehouse drop location, in whatever order the rows were *)
(* loaded; a warehouse row is kept only when every tied row is a warehouse  *)
(* row.                                                                     *)
C7_NonWarehousePreferred ==
    KithShown =>
        \A order \in LoadedOrders : \A n \in DedupedOf(order) :
            LET group == OrderGroup(df.df, order)
                tied == TiedAtMax(order)
            IN  /\ (Cardinality(tied) >= 2
                      /\ \E k \in tied : ~is_warehouse(group[k].dropLocationName))
                   => ~is_warehouse(df.df_deduped[n].dropLocationName)
                /\ is_warehouse(df.df_deduped[n].dropLocationName)
                   => \A k \in tied : is_warehouse(group[k].dropLocationName)

\* a tie at the latest date whose first loaded row is a warehouse row and
\* whose second is not, with the non-warehouse row kept
C7_Witness ==
    /\ KithShown
    /\ \E order \in LoadedOrders : \E n \in DedupedOf(order) :
          LET group == OrderGroup(df.df, order)
          IN  /\ Len(group) >= 2
              /\ {1, 2} \subseteq TiedAtMax(order)
              /\ is_warehouse(group[1].dropLocationName)
              /\ ~is_warehouse(group[2].dropLocationName)
              /\ df.df_deduped[n] = group[2]

(* C15: the deduplication is idempotent: applied to its own output, the     *)
(* groupby on orderCode with deduplicate_order returns the same rows in the *)
(* same order, and that output holds one row per order.                     *)
C15_DeduplicateIdempotent ==
    KithShown =>
        /\ deduplicate(df.df_deduped) = df.df_deduped
        /\ \A j, k \in 1..Len(df.df_deduped) :
              df.df_deduped[j].orderCode = df.df_deduped[k].orderCode => j = k

\* a loaded frame of two orders, one of them with two rows, of which the
\* first pass dropped one and the second pass drops none
C15_Witness ==
    /\ KithShown
    /\ Len(df.df) = 3
    /\ Len(df.df_deduped) = 2
    /\ Len(deduplicate(df.df_deduped)) = 2

(* C28: in the KITH report the 'Shipment Count' values of the pivot by      *)
(* delivery location add up to the number of deduplicated shipments of the  *)
(* shipments breakdown: every deduplicated order is counted in exactly one  *)
(* delivery location, also an order whose row has a null or an empty drop   *)
(* location.                                                                *)
C28_PivotCountsAllShipments ==
    KithShown =>
        SumOver(1..Len(df.pivot_df),
                [n \in 1..Len(df.pivot_df) |-> df.pivot_df[n].Shipment_Count], 0)
            = Len(df.shipments_df)

-----------------------------------------------------------------------------
(* Board-meeting financials: src/financials_for_board_meeting/app.py        *)
(* Locations and pickWindowFrom are texts inspected character by character. *)
(* LIKE is evaluated on texts written in the case of the patterns.          *)

MaxBoardLegs == 3

\* SQL truth values
True3 == "TRUE"
False3 == "FALSE"
Unknown3 == Null

Not3(a) == IF a = True3 THEN False3 ELSE IF a = False3 THEN True3 ELSE Unknown3

And3(a, b) ==
    IF a = False3 \/ b = False3 THEN False3
    ELSE IF a = True3 /\ b = True3 THEN True3
    ELSE Unknown3

Or3(a, b) ==
    IF a = True3 \/ b = True3 THEN True3
    ELSE IF a = False3 /\ b = False3 THEN False3
    ELSE Unknown3

Bool3(b) == IF b THEN True3 ELSE False3

RECURSIVE LikeFrom(_, _, _, _)
\* the segments of a pattern occur in t one after another, the first one at
\* `from` when anchored and at or after `from` otherwise
LikeFrom(t, segments, from, anchored) ==
    IF segments = <<>> THEN TRUE
    ELSE LET seg == Head(segments)
             places == IF anchored
                       THEN {k \in {from} : OccursAt(t, seg, k)}
                       ELSE {k \in from..(Len(t) + 1) : OccursAt(t, seg, k)}
         IN  IF places = {} THEN FALSE
             ELSE LET k == CHOOSE x \in places : \A y \in places : x <= y
                  IN  LikeFrom(t, Tail(segments), k + Len(seg), FALSE)

\* t LIKE 'seg1%seg2%...%': NULL for a NULL text
LIKE_prefix(t, segments) ==
    IF t = NoText THEN Unknown3 ELSE Bool3(LikeFrom(t, segments, 1, TRUE))

\* t LIKE '%seg1%seg2%...%': NULL for a NULL text
LIKE_anywhere(t, segments) ==
    IF t = NoText THEN Unknown3 ELSE Bool3(LikeFrom(t, segments, 1, FALSE))

\* SUBSTRING(t, pos, len)
SUBSTRING(t, pos, len) == SubSeq(t, pos, Min(pos + len - 1, Len(t)))

P_WTCH == <<"W", "T", "C", "H", "-">>
P_ACCL == <<"A", "C", "C", "L", "-">>
P_SB == <<"S", "B", "-">>
P_CrossDock == <<"C", "r", "o", "s", "s", "-", "D", "o", "c", "k">>
P_GoBolt == <<"G", "o", "B", "o", "l", "t">>
P_NYC == <<"N", "Y", "C">>
P_Chicago == <<"C", "h", "i", "c", "a", "g", "o">>

\* the rules 'SB-<city>-%' -> code of get_market_case, in the order written
SB_Rules ==
    <<[pattern |-> <<"S", "B", "-", "A", "T", "L", "-">>, market |-> <<"A", "T", "L">>],
      [pattern |-> <<"S", "B", "-", "D", "C", "-">>, market |-> <<"D", "C", "A">>],
      [pattern |-> <<"S", "B", "-", "D", "A", "L", "-">>, market |-> <<"D", "F", "W">>],
      [pattern |-> <<"S", "B", "-", "S", "E", "A", "-">>, market |-> <<"S", "E", "A">>],
      [pattern |-> <<"S", "B", "-", "L", "A", "-">>, market |-> <<"L", "A", "X">>],
      [pattern |-> <<"S", "B", "-", "D", "E", "N", "-">>, market |-> <<"D", "E", "N">>],
      [pattern |-> <<"S", "B", "-", "N", "Y", "C", "-">>, market |-> <<"E", "W", "R">>],
      [pattern |-> <<"S", "B", "-", "P", "H", "X", "-">>, market |-> <<"P", "H", "X">>],
      [pattern |-> <<"S", "B", "-", "M", "I", "A", "-">>, market |-> <<"M", "I", "A">>]>>

RECURSIVE SB_Case(_, _)
\* the WHEN ... LIKE 'SB-...' branches from the n-th on, NULL when none matches
SB_Case(location, n) ==
    IF n > Len(SB_Rules) THEN NoText
    ELSE IF LIKE_prefix(location, <<SB_Rules[n].pattern>>) = True3 THEN SB_Rules[n].market
    ELSE SB_Case(location, n + 1)

\* get_market_case with the two Cross-Dock rules tried first
get_market_case_crossdock_first(location) ==
    IF LIKE_anywhere(location, <<P_GoBolt, P_NYC, P_CrossDock>>) = True3 THEN <<"E", "W", "R">>
    ELSE IF LIKE_anywhere(location, <<P_CrossDock, P_Chicago>>) = True3 THEN <<"O", "R", "D">>
    ELSE IF LIKE_prefix(location, <<P_WTCH>>) = True3 THEN SUBSTRING(location, 6, 3)
    ELSE IF LIKE_prefix(location, <<P_ACCL>>) = True3 THEN SUBSTRING(location, 6, 3)
    ELSE SB_Case(location, 1)

\* get_market_case(location_col): the value of the CASE for one location,
\* NoText for NULL
get_market_case(location) ==
    IF LIKE_prefix(location, <<P_WTCH>>) = True3 THEN SUBSTRING(location, 6, 3)
    ELSE IF LIKE_prefix(location, <<P_ACCL>>) = True3 THEN SUBSTRING(location, 6, 3)
    ELSE LET sb_market == SB_Case(location, 1)
         IN  IF sb_market # NoText THEN sb_market
             ELSE IF LIKE_anywhere(location, <<P_GoBolt, P_NYC, P_CrossDock>>) = True3
                  THEN <<"E", "W", "R">>
             ELSE IF LIKE_anywhere(location, <<P_CrossDock, P_Chicago>>) = True3
                  THEN <<"O", "R", "D">>
             ELSE NoText

\* is_crossdock(location_col)
is_crossdock(location) ==
    Or3(Or3(Or3(LIKE_prefix(location, <<P_WTCH>>), LIKE_prefix(location, <<P_ACCL>>)),
            LIKE_prefix(location, <<P_SB>>)),
        LIKE_anywhere(location, <<P_CrossDock>>))

P_2025 == <<"/", "2", "0", "2", "5">>

\* the months of the four quarters, as written in the patterns 'MM/%/2025%'
QuarterMonths ==
    << <<<<"0", "1">>, <<"0", "2">>, <<"0", "3">>>>,
       <<<<"0", "4">>, <<"0", "5">>, <<"0", "6">>>>,
       <<<<"0", "7">>, <<"0", "8">>, <<"0", "9">>>>,
       <<<<"1", "0">>, <<"1", "1">>, <<"1", "2">>>> >>

\* pickWindowFrom LIKE 'MM/%/2025%'
LIKE_month(t, month) == LIKE_prefix(t, <<month \o <<"/">>, P_2025>>)

\* one WHEN of get_quarter_case: the three LIKEs of quarter q joined by OR
quarter_when(t, q) ==
    Or3(Or3(LIKE_month(t, QuarterMonths[q][1]), LIKE_month(t, QuarterMonths[q][2])),
        LIKE_month(t, QuarterMonths[q][3]))

\* get_quarter_case()
get_quarter_case(t) ==
    IF quarter_when(t, 1) = True3 THEN "Q1"
    ELSE IF quarter_when(t, 2) = True3 THEN "Q2"
    ELSE IF quarter_when(t, 3) = True3 THEN "Q3"
    ELSE IF quarter_when(t, 4) = True3 THEN "Q4"
    ELSE "Unknown"

\* CASE WHEN pick_market IS NOT NULL THEN pick_market
\*      WHEN drop_market IS NOT NULL THEN drop_market END
row_market(o) ==
    LET pick_market == get_market_case(o.pickLocationName)
    IN  IF pick_market # NoText THEN pick_market
        ELSE get_market_case(o.dropLocationName)

\* a condition that asks for a crossdock on either side
any_side_crossdock(o) ==
    Or3(is_crossdock(o.pickLocationName), is_crossdock(o.dropLocationName))

\* exactly one side of the leg is a crossdock
one_side_crossdock(o) ==
    LET pick_is_xdock == is_crossdock(o.pickLocationName)
        drop_is_xdock == is_crossdock(o.dropLocationName)
    IN  Or3(And3(pick_is_xdock,
                 Or3(Not3(drop_is_xdock), Bool3(o.dropLocationName = NoText))),
            And3(drop_is_xdock,
                 Or3(Not3(pick_is_xdock), Bool3(o.pickLocationName = NoText))))

\* the WHERE of ltl_query and of the joined subquery m
ltl_query_where(o) ==
    /\ o.shipmentType = LTL
    /\ o.mainShipment = "YES"
    /\ o.shipmentStatus = "Complete"
    /\ LIKE_anywhere(o.pickWindowFrom, <<P_2025>>) = True3
    /\ one_side_crossdock(o) = True3

\* CASE WHEN revenueAllocationNumber > 0 THEN revenueAllocationNumber ELSE 0 END
positive_revenue(o) ==
    IF o.revenueAllocationNumber # {} /\ COALESCE(o.revenueAllocationNumber, 0) > 0
    THEN COALESCE(o.revenueAllocationNumber, 0) ELSE 0

\* the rows that pass the WHERE, with the expressions the queries compute
\* from each (pos is the row's position in the table)
ltl_select(table) ==
    {[pos |-> i,
      orderCode |-> table[i].orderCode,
      market |-> row_market(table[i]),
      quarter |-> get_quarter_case(table[i].pickWindowFrom),
      warpId |-> table[i].warpId,
      revenue |-> positive_revenue(table[i]),
      pieces |-> COALESCE(table[i].pieces, 0)] :
        i \in {n \in 1..Len(table) : ltl_query_where(table[n])}}

\* HAVING market IS NOT NULL
ltl_having(g) == g.market # NoText

\* GROUP BY market, quarter ... HAVING market IS NOT NULL over the selected rows
group_by_market_quarter(selected) ==
    {[market |-> g.market,
      quarter |-> g.quarter,
      shipments |-> Cardinality(UNION {r.warpId : r \in {x \in selected :
                                         x.market = g.market /\ x.quarter = g.quarter}}),
      revenue |-> SumOver({x \in selected : x.market = g.market /\ x.quarter = g.quarter},
                          [r \in selected |-> r.revenue], 0),
      pieces |-> SumOver({x \in selected : x.market = g.market /\ x.quarter = g.quarter},
                         [r \in selected |-> r.pieces], 0)] :
        g \in {h \in {[market |-> r.market, quarter |-> r.quarter] : r \in selected} :
                  ltl_having(h)}}

\* ltl_query: one row per (market, quarter) group that passes HAVING
ltl_query(table) == group_by_market_quarter(ltl_select(table))

\* o INNER JOIN m ON o.orderCode = m.orderCode WHERE o is a complete LTL leg:
\* one row per pair of a leg o and a row of the subquery m
join_on_orderCode(table, m) ==
    {[o |-> p[1], m |-> p[2].pos, orderCode |-> table[p[1]].orderCode,
      market |-> p[2].market, quarter |-> p[2].quarter,
      costAllocationNumber |-> table[p[1]].costAllocationNumber] :
        p \in {q \in (1..Len(table)) \X m :
                  /\ table[q[1]].orderCode # Null
                  /\ table[q[1]].orderCode = q[2].orderCode
                  /\ table[q[1]].shipmentType = LTL
                  /\ table[q[1]].shipmentStatus = "Complete"}}

\* SUM of a nullable number over a set of rows: NULL when no row has a value
SumNullable(S, f) ==
    IF \A x \in S : f[x] = {} THEN {}
    ELSE {SumOver(S, [x \in S |-> COALESCE(f[x], 0)], 0)}

\* GROUP BY o.orderCode, market, quarter with SUM(o.costAllocationNumber)
group_by_order(joined) ==
    {[orderCode |-> k.orderCode, market |-> k.market, quarter |-> k.quarter,
      order_cost |-> SumNullable({j \in joined : /\ j.orderCode = k.orderCode
                                                 /\ j.market = k.market
                                                 /\ j.quarter = k.quarter},
                                 [j \in joined |-> j.costAllocationNumber])] :
        k \in {[orderCode |-> j.orderCode, market |-> j.market, quarter |-> j.quarter] :
                  j \in joined}}

\* the subquery sub
cost_sub(table) == group_by_order(join_on_orderCode(table, ltl_select(table)))

\* SUM(sub.order_cost) ... GROUP BY sub.market, sub.quarter over the rows of
\* sub that pass WHERE sub.market IS NOT NULL
group_sub(sub) ==
    {[market |-> g.market, quarter |-> g.quarter,
      cost |-> SumNullable({x \in sub : x.market = g.market /\ x.quarter = g.quarter},
                           [x \in sub |-> x.order_cost])] :
        g \in {[market |-> x.market, quarter |-> x.quarter] : x \in sub}}

\* ltl_cost_query: cost per (market, quarter)
ltl_cost_query(table) == group_sub({x \in cost_sub(table) : x.market # NoText})

\* ltl_df.merge(ltl_cost_df, on=['market', 'quarter'], how='left'), cost.fillna(0)
merge(ltl_df, ltl_cost_df) ==
    {[market |-> r.market, quarter |-> r.quarter, shipments |-> r.shipments,
      revenue |-> r.revenue, pieces |-> r.pieces,
      cost |-> COALESCE(UNION {c.cost : c \in {x \in ltl_cost_df :
                                                  /\ x.market = r.market
                                                  /\ x.quarter = r.quarter}}, 0)] :
        r \in ltl_df}

\* get_market_summary() from line 149 on, for the rows the two queries select;
\* ltl_ok and cost_ok tell whether execute_query returned a frame (TRUE) or
\* None (FALSE). A query that returns no row gives a DataFrame without
\* columns, so the merge on ['market', 'quarter'] raises KeyError; without the
\* merge the frame has no cost column.
get_market_summary(ltl_ok, cost_ok, ltl_df, ltl_cost_df) ==
    IF ltl_ok /\ cost_ok
    THEN IF ltl_df = {} \/ ltl_cost_df = {}
         THEN [raised |-> "KeyError", is_none |-> FALSE, rows |-> {}, cost_column |-> FALSE]
         ELSE [raised |-> "", is_none |-> FALSE, rows |-> merge(ltl_df, ltl_cost_df),
               cost_column |-> TRUE]
    ELSE IF ~ltl_ok
    THEN [raised |-> "", is_none |-> TRUE, rows |-> {}, cost_column |-> FALSE]
    ELSE [raised |-> "", is_none |-> FALSE, rows |-> ltl_df, cost_column |-> FALSE]

\* the sums of one market's rows with profit, cost_per_piece and margin_pct
summary_row(m, shipments, revenue, cost, pieces) ==
    [market |-> m, shipments |-> shipments, revenue |-> revenue, cost |-> cost,
     pieces |-> pieces, profit |-> revenue - cost,
     cost_per_piece |-> IF pieces > 0 THEN FloatDiv(cost, pieces) ELSE DFromInt(0),
     margin_pct |-> IF revenue > 0 THEN FloatMul(FloatDiv(revenue - cost, revenue), 100)
                    ELSE DFromInt(0)]

\* data.groupby('market').agg(sum) and the derived columns
market_summary_rows(data) ==
    {summary_row(m,
                 SumOver({r \in data : r.market = m}, [r \in data |-> r.shipments], 0),
                 SumOver({r \in data : r.market = m}, [r \in data |-> r.revenue], 0),
                 SumOver({r \in data : r.market = m}, [r \in data |-> r.cost], 0),
                 SumOver({r \in data : r.market = m}, [r \in data |-> r.pieces], 0)) :
        m \in {r.market : r \in data}}

\* the listings in which every row's revenue is at least the next one's
OrderByRevenueDesc(rows) ==
    {f \in SeqsOfSet(rows) : \A i \in 1..(Len(f) - 1) : f[i].revenue >= f[i + 1].revenue}

\* market_summary.sort_values('revenue', ascending=False): the listings the
\* sort may produce (rows of equal revenue in any order)
market_summary(data) == OrderByRevenueDesc(market_summary_rows(data))

Loc_WTCH_LAX_9 == <<"W", "T", "C", "H", "-", "L", "A", "X", "-", "9">>
Loc_ACCL_EWR == <<"A", "C", "C", "L", "-", "E", "W", "R">>
Loc_SB_NYC_UG == <<"S", "B", "-", "N", "Y", "C", "-", "U", "G">>
Loc_SB_BOS_1 == <<"S", "B", "-", "B", "O", "S", "-", "1">>
Loc_Store == <<"S", "t", "o", "r", "e">>
Loc_GoBolt == <<"G", "o", "B", "o", "l", "t", " ", "N", "Y", "C", " ", "C", "r", "o", "s", "s", "-", "D", "o", "c", "k">>
Loc_Chicago == <<"C", "r", "o", "s", "s", "-", "D", "o", "c", "k", " ", "C", "h", "i", "c", "a", "g", "o">>
Loc_WTCH_Chicago == <<"W", "T", "C", "H", "-", "C", "r", "o", "s", "s", "-", "D", "o", "c", "k", " ", "C", "h", "i", "c", "a", "g", "o">>
Loc_WTCH_bare == <<"W", "T", "C", "H", "-">>
Loc_ACCL_1_EWR == <<"A", "C", "C", "L", "-", "1", "-", "E", "W", "R">>
Loc_SB_LA_Chicago == <<"S", "B", "-", "L", "A", "-", "C", "r", "o", "s", "s", "-", "D", "o", "c", "k", " ", "C", "h", "i", "c", "a", "g", "o">>

Date_Q1 == <<"0", "1", "/", "1", "5", "/", "2", "0", "2", "5", " ", "0", "8", ":", "0", "0", ":", "0", "0">>
Date_Q2 == <<"0", "4", "/", "0", "2", "/", "2", "0", "2", "5", " ", "0", "8", ":", "0", "0", ":", "0", "0">>
Date_2024 == <<"0", "1", "/", "1", "5", "/", "2", "0", "2", "4", " ", "0", "8", ":", "0", "0", ":", "0", "0">>
Date_ShortMonth == <<"1", "/", "1", "5", "/", "2", "0", "2", "5", " ", "0", "8", ":", "0", "0", ":", "0", "0">>

BoardLeg(order, warp, type, main, status, window, pick, drop, revenue, cost, pcs) ==
    [orderCode |-> order, warpId |-> warp, shipmentType |-> type, mainShipment |-> main,
     shipmentStatus |-> status, pickWindowFrom |-> window, pickLocationName |-> pick,
     dropLocationName |-> drop, revenueAllocationNumber |-> revenue,
     costAllocationNumber |-> cost, pieces |-> pcs]

\* a complete main LTL leg of order A1 in the first quarter
MainLeg(pick, drop) ==
    BoardLeg("A1", {1}, LTL, "YES", "Complete", Date_Q1, pick, drop, {500}, {300}, {10})

BoardBase == MainLeg(Loc_WTCH_LAX_9, Loc_Store)

\* the legs the table is built from
BoardLegs ==
    << BoardBase,
       MainLeg(Loc_Store, Loc_WTCH_LAX_9),
       MainLeg(Loc_SB_NYC_UG, Loc_Store),
       MainLeg(Loc_SB_BOS_1, Loc_Store),
       MainLeg(Loc_Store, Loc_Store),
       MainLeg(Loc_WTCH_LAX_9, Loc_ACCL_EWR),
       MainLeg(Loc_ACCL_EWR, Loc_Store),
       MainLeg(Loc_WTCH_LAX_9, NoText),
       MainLeg(NoText, Loc_SB_NYC_UG),
       MainLeg(NoText, Loc_SB_BOS_1),
       MainLeg(NoText, NoText),
       MainLeg(Loc_GoBolt, Loc_Store),
       MainLeg(Loc_Store, Loc_Chicago),
       MainLeg(Loc_WTCH_Chicago, Loc_Store),
       MainLeg(Loc_SB_LA_Chicago, Loc_Store),
       MainLeg(Loc_WTCH_bare, Loc_Store),
       MainLeg(Loc_Store, Loc_ACCL_1_EWR),
       [BoardBase EXCEPT !.mainShipment = "NO", !.warpId = {2},
                         !.revenueAllocationNumber = {}, !.costAllocationNumber = {120},
                         !.pickLocationName = Loc_Store, !.dropLocationName = Loc_Store],
       [BoardBase EXCEPT !.shipmentType = FTL],
       [BoardBase EXCEPT !.shipmentStatus = "Pending"],
       [BoardBase EXCEPT !.pickWindowFrom = Date_2024],
       [BoardBase EXCEPT !.pickWindowFrom = Date_Q2, !.warpId = {3}],
       [BoardBase EXCEPT !.pickWindowFrom = Date_ShortMonth],
       [BoardBase EXCEPT !.pickWindowFrom = NoText],
       [BoardBase EXCEPT !.orderCode = "B2", !.warpId = {4}, !.revenueAllocationNumber = {200},
                         !.costAllocationNumber = {250}],
       [BoardBase EXCEPT !.orderCode = "B2", !.warpId = {4}, !.pickLocationName = Loc_SB_BOS_1,
                         !.revenueAllocationNumber = {0}, !.costAllocationNumber = {},
                         !.pieces = {}],
       [BoardBase EXCEPT !.orderCode = Null, !.warpId = {}, !.revenueAllocationNumber = {-50},
                         !.pieces = {0}] >>

BoardRank(o) == CHOOSE n \in 1..Len(BoardLegs) : BoardLegs[n] = o

InitBoard ==
    /\ app = "board"
    /\ pc = "edit"
    /\ otp_reports = <<>>
    /\ sidebar = Unused
    /\ df = Unused

\* a leg is written to otp_reports
InsertBoardLeg ==
    /\ app = "board"
    /\ pc = "edit"
    /\ Len(otp_reports) < MaxBoardLegs
    /\ LET first == IF otp_reports = <<>> THEN 1
                    ELSE BoardRank(otp_reports[Len(otp_reports)])
       IN  \E n \in first..Len(BoardLegs) :
              otp_reports' = Append(otp_reports, BoardLegs[n])
    /\ UNCHANGED <<app, pc, sidebar, df>>

\* lines 167-206 for what get_market_summary returned: the exception page,
\* the error message followed by st.stop(), or the report
ShowBoard(result, ltl_ok, cost_ok) ==
    /\ IF result.raised # ""
       THEN /\ pc' = "board_exception"
            /\ df' = [data |-> {}, market_summary |-> <<>>]
       ELSE IF result.is_none \/ result.rows = {}
       THEN /\ pc' = "board_error"
            /\ df' = [data |-> {}, market_summary |-> <<>>]
       ELSE IF ~result.cost_column
       THEN /\ pc' = "board_exception"
            /\ df' = [data |-> result.rows, market_summary |-> <<>>]
       ELSE /\ pc' = "board_shown"
            /\ \E listing \in market_summary(result.rows) :
                  df' = [data |-> result.rows, market_summary |-> listing]
    /\ sidebar' = [selected_market |-> IF pc' = "board_shown" THEN "All Markets" ELSE Null,
                   ltl_ok |-> ltl_ok, cost_ok |-> cost_ok]

\* each of the two queries returns its rows or fails
LoadAndShow(ltl_df, ltl_cost_df) ==
    \E ltl_ok, cost_ok \in BOOLEAN :
        ShowBoard(get_market_summary(ltl_ok, cost_ok, ltl_df, ltl_cost_df), ltl_ok, cost_ok)

\* the page runs: lines 167-206
BoardRun ==
    /\ app = "board"
    /\ pc = "edit"
    /\ LoadAndShow(ltl_query(otp_reports), ltl_cost_query(otp_reports))
    /\ UNCHANGED <<app, otp_reports>>

NextBoard == InsertBoardLeg \/ BoardRun

SpecBoard == InitBoard /\ [][NextBoard]_vars

\* the WHEN branches of get_market_case in the order written (lines 43-55):
\* how the location is matched and what the branch yields
MarketRules ==
    << [like |-> "prefix", segments |-> <<P_WTCH>>, then |-> "SUBSTRING", code |-> <<>>],
       [like |-> "prefix", segments |-> <<P_ACCL>>, then |-> "SUBSTRING", code |-> <<>>] >>
    \o [n \in 1..Len(SB_Rules) |->
           [like |-> "prefix", segments |-> <<SB_Rules[n].pattern>>, then |-> "code",
            code |-> SB_Rules[n].market]]
    \o << [like |-> "anywhere", segments |-> <<P_GoBolt, P_NYC, P_CrossDock>>, then |-> "code",
           code |-> <<"E", "W", "R">>],
          [like |-> "anywhere", segments |-> <<P_CrossDock, P_Chicago>>, then |-> "code",
           code |-> <<"O", "R", "D">>] >>

RuleMatches(rule, location) ==
    IF rule.like = "prefix" THEN LIKE_prefix(location, rule.segments) = True3
    ELSE LIKE_anywhere(location, rule.segments) = True3

MatchingRules(location) == {n \in 1..Len(MarketRules) : RuleMatches(MarketRules[n], location)}

\* what the first matching rule yields, NULL when no rule matches
FirstMatch(location) ==
    LET matching == MatchingRules(location)
    IN  IF matching = {} THEN NoText
        ELSE LET rule == MarketRules[CHOOSE n \in matching : \A k \in matching : n <= k]
             IN  IF rule.then = "SUBSTRING" THEN SUBSTRING(location, 6, 3) ELSE rule.code

BoardLocations ==
    UNION {{otp_reports[i].pickLocationName, otp_reports[i].dropLocationName} :
              i \in 1..Len(otp_reports)}

\* the page shows the report for the data both queries returned
BoardDone == app = "board" /\ pc = "board_shown"

\* a location's market is what the first matching rule yields, with the
\* values stated for 'WTCH-LAX-9', 'SB-NYC-UG', NULL and 'SB-BOS-1'
FirstRuleDecides(location, market) ==
    /\ market = FirstMatch(location)
    /\ location = Loc_WTCH_LAX_9 => market = <<"L", "A", "X">>
    /\ location = Loc_SB_NYC_UG => market = <<"E", "W", "R">>
    /\ location \in {NoText, Loc_SB_BOS_1} => market = NoText

\* no row of the market data or of the summary is keyed by NULL, and every row
\* of the market data counts exactly the selected rows of its market and quarter
NullMarketExcluded(selected, data, listing) ==
    /\ \A r \in data : r.market # NoText
    /\ \A k \in 1..Len(listing) : listing[k].market # NoText
    /\ \A r \in data :
          /\ r.shipments = Cardinality(UNION {x.warpId : x \in {y \in selected :
                               y.market = r.market /\ y.quarter = r.quarter}})
          /\ r.revenue = SumOver({y \in selected : y.market = r.market /\ y.quarter = r.quarter},
                                 [x \in selected |-> x.revenue], 0)
          /\ r.pieces = SumOver({y \in selected : y.market = r.market /\ y.quarter = r.quarter},
                                [x \in selected |-> x.pieces], 0)
    /\ SumOver(data, [r \in data |-> r.revenue], 0)
         = SumOver({y \in selected : y.market # NoText}, [x \in selected |-> x.revenue], 0)
    /\ SumOver(data, [r \in data |-> r.pieces], 0)
         = SumOver({y \in selected : y.market # NoText}, [x \in selected |-> x.pieces], 0)

\* C9: get_market_case tries its rules in the order written and the first
\* matching rule decides: 'WTCH-LAX-9' yields 'LAX', 'SB-NYC-UG' yields 'EWR',
\* a location that matches no rule (a NULL location and an unlisted 'SB-'
\* prefix among them) yields NULL, for the locations of every table the page
\* can run on; and once the page shows the report, no row of the
\* market data or of the market summary is keyed by a NULL market, the rows
\* whose market is NULL adding nothing to the shipments, revenue and pieces
\* of any row.
C9_FirstRuleDecidesNullMarketExcluded ==
    app = "board" =>
        /\ pc = "edit" => \A location \in BoardLocations :
                             FirstRuleDecides(location, get_market_case(location))
        /\ BoardDone => NullMarketExcluded(ltl_select(otp_reports), df.data, df.market_summary)

\* the page is shown for a table with a 'WTCH-LAX-9' leg under LAX, an
\* 'SB-NYC-UG' leg under EWR and a selected leg whose market is NULL
C9_Witness ==
    /\ app = "board"
    /\ pc = "board_shown"
    /\ \E i, j \in 1..Len(otp_reports) :
          /\ otp_reports[i].pickLocationName = Loc_WTCH_LAX_9
          /\ otp_reports[j].pickLocationName = Loc_SB_NYC_UG
    /\ \E r \in df.data : r.market = <<"L", "A", "X">>
    /\ \E r \in df.data : r.market = <<"E", "W", "R">>
    /\ \E x \in ltl_select(otp_reports) :
          x.market = NoText /\ otp_reports[x.pos].revenueAllocationNumber = {500}

Letters ==
    {"A", "B", "C", "D", "E", "F", "G", "H", "I", "J", "K", "L", "M",
     "N", "O", "P", "Q", "R", "S", "T", "U", "V", "W", "X", "Y", "Z",
     "a", "b", "c", "d", "e", "f", "g", "h", "i", "j", "k", "l", "m",
     "n", "o", "p", "q", "r", "s", "t", "u", "v", "w", "x", "y", "z"}

ThreeLetters(market) == Len(market) = 3 /\ \A n \in 1..3 : market[n] \in Letters

(* C17: every non-null market code get_market_case produces, and so every  *)
(* market key of the data and of the market summary, is exactly three       *)
(* letters long, for every location, also a 'WTCH-' or 'ACCL-' location     *)
(* shorter than eight characters or with other characters after the prefix. *)
C17_MarketCodeThreeLetters ==
    app = "board" =>
        /\ pc = "edit" => \A location \in BoardLocations :
              get_market_case(location) # NoText => ThreeLetters(get_market_case(location))
        /\ BoardDone =>
              /\ \A r \in df.data : ThreeLetters(r.market)
              /\ \A n \in 1..Len(df.market_summary) : ThreeLetters(df.market_summary[n].market)

\* C11: in every report a fetch that succeeds with zero rows is shown as a
\* non-error "no data" outcome and a failed fetch as an error, never one as the
\* other. For the board-meeting report: when both queries succeed and select
\* no row the page shows neither the error message nor an exception, and when
\* the main query fails it shows the error.
C11_EmptyIsNotShownAsFailure ==
    (app = "board" /\ pc # "edit") =>
        /\ (sidebar.ltl_ok /\ sidebar.cost_ok /\ ltl_select(otp_reports) = {})
              => pc \notin {"board_error", "board_exception"}
        /\ ~sidebar.ltl_ok => pc = "board_error"

\* the side of a leg that is a crossdock while the other side is not one or
\* is NULL; "none" when both sides are crossdocks or neither is
CrossdockSide(o) ==
    LET pick == is_crossdock(o.pickLocationName) = True3
        drop == is_crossdock(o.dropLocationName) = True3
    IN  IF pick /\ ~drop THEN "pick"
        ELSE IF drop /\ ~pick THEN "drop"
        ELSE "none"

\* the market code of the crossdock side
CrossdockMarket(o) ==
    CASE CrossdockSide(o) = "pick" -> get_market_case(o.pickLocationName)
      [] CrossdockSide(o) = "drop" -> get_market_case(o.dropLocationName)
      [] OTHER -> NoText

\* the complete main-shipment LTL legs of 2025 with exactly one crossdock
\* side whose market code and quarter are the given ones
MarketLegs(market, quarter) ==
    {i \in 1..Len(otp_reports) :
        LET o == otp_reports[i]
        IN  /\ o.shipmentType = LTL /\ o.mainShipment = "YES"
            /\ o.shipmentStatus = "Complete"
            /\ LIKE_anywhere(o.pickWindowFrom, <<P_2025>>) = True3
            /\ CrossdockSide(o) # "none"
            /\ CrossdockMarket(o) = market
            /\ get_quarter_case(o.pickWindowFrom) = quarter}

(* C23: in get_market_summary a main-shipment LTL leg contributes to a      *)
(* market only if exactly one of its pickup and drop locations is a         *)
(* crossdock and the other is not one or is null, and the market credited   *)
(* is the market code of the crossdock side: the shipments, revenue and     *)
(* pieces of every (market, quarter) row are those of exactly these legs,   *)
(* and every such leg with a market code is in a row.                       *)
C23_ExactlyOneCrossdockSide ==
    BoardDone =>
        /\ \A r \in df.data :
            LET legs == MarketLegs(r.market, r.quarter)
            IN  /\ legs # {}
                /\ r.shipments = Cardinality(UNION {otp_reports[i].warpId : i \in legs})
                /\ r.revenue = SumOver(legs, [i \in legs |-> positive_revenue(otp_reports[i])], 0)
                /\ r.pieces = SumOver(legs, [i \in legs |-> COALESCE(otp_reports[i].pieces, 0)], 0)
        /\ \A i \in 1..Len(otp_reports) :
            LET o == otp_reports[i]
                market == CrossdockMarket(o)
                quarter == get_quarter_case(o.pickWindowFrom)
            IN  (market # NoText /\ i \in MarketLegs(market, quarter)) =>
                    \E r \in df.data : r.market = market /\ r.quarter = quarter

\* the report is shown for a leg picked up at a crossdock, a leg dropped at
\* one, a leg between two crossdocks and a leg between two stores: the LAX
\* row holds the revenue of the first two only
C23_Witness ==
    /\ BoardDone
    /\ \E i, j, k \in 1..Len(otp_reports) :
        /\ CrossdockSide(otp_reports[i]) = "pick"
        /\ CrossdockSide(otp_reports[j]) = "drop"
        /\ CrossdockMarket(otp_reports[j]) = <<"L", "A", "X">>
        /\ is_crossdock(otp_reports[k].pickLocationName) = True3
        /\ is_crossdock(otp_reports[k].dropLocationName) = True3
    /\ \E r \in df.data : r.market = <<"L", "A", "X">> /\ r.revenue = 1000

\* the Complete LTL legs of the orders that have a qualifying main-shipment
\* row of the given market and quarter
OrderLegs(market, quarter) ==
    {i \in 1..Len(otp_reports) :
        /\ otp_reports[i].shipmentType = LTL
        /\ otp_reports[i].shipmentStatus = "Complete"
        /\ otp_reports[i].orderCode # Null
        /\ \E m \in ltl_select(otp_reports) :
              /\ m.orderCode = otp_reports[i].orderCode
              /\ m.market = market /\ m.quarter = quarter}

(* C25: in the LTL cost query of get_market_summary the cost of each        *)
(* Complete LTL leg of an order is added at most once to the cost of a      *)
(* (market, quarter), whatever the number of qualifying main-shipment rows  *)
(* the order has: the cost of a row is at most the sum of the costs (none   *)
(* of them negative) of the legs of the orders with a qualifying row there. *)
C25_OrderCostAddedOnce ==
    BoardDone =>
        \A r \in df.data :
            LET legs == OrderLegs(r.market, r.quarter)
            IN  r.cost <= SumOver(legs, [i \in legs |->
                                COALESCE(otp_reports[i].costAllocationNumber, 0)], 0)

-----------------------------------------------------------------------------
(* The data source of the board-meeting report:                             *)
(* src/financials_for_board_meeting/db_connection.py under the caches of    *)
(* app.py.  st.cache_resource keeps what get_db_connection returned, for    *)
(* the life of the process; st.cache_data(ttl=300) keeps what               *)
(* get_market_summary returned until the entry is 300 seconds old.  None is *)
(* a return value like any other and is kept too.                           *)

\* the states of a connection: the value st.cache_resource holds for
\* get_db_connection, or the one get_db_connection is making: no value, None,
\* a connection that works, a connection the server dropped
ConnectionStates == {"absent", "none", "open", "lost"}

\* mysql.connector.connect(...) of lines 32-38: a connection, or the Error
\* that line 42 catches and line 44 turns into None
connect(db_up) == IF db_up THEN "open" ELSE "none"

\* lines 40-41: the connection is returned when is_connected() finds it
\* alive; otherwise the function ends without a return statement (None)
is_connected(connection) == IF connection = "open" THEN "open" ELSE "none"

\* execute_query(query) on the connection get_db_connection returned: a
\* frame (TRUE) or None (FALSE): None when the connection is None (line 59)
\* or when the cursor raises Error (line 76)
execute_query(connection, db_up) == connection = "open" /\ db_up

\* the tables the data source may hold; each has rows for the report.  The
\* table does not change while the page is rerun, so the rows the database
\* answers the two queries with are fixed with it (sidebar.ltl_df and
\* sidebar.ltl_cost_df).
SourceTables ==
    {<<BoardLegs[n]>> : n \in {1, 2, 3, 7, 12, 13}}
    \cup {<<BoardLegs[1], BoardLegs[n]>> : n \in {2, 3, 7, 12, 13, 22}}

SourceRested == {"source_idle", "source_failed", "source_exception", "source_shown"}

\* a run of the script inside get_market_summary: the connection is made
\* and not yet returned, the first query is about to be sent, the second is
SourceRunning == {"source_connecting", "source_first_query", "source_querying"}

InitSource ==
    /\ app = "board"
    /\ pc = "source_idle"
    /\ otp_reports \in SourceTables
    /\ sidebar = [db_up |-> TRUE, ltl_df |-> ltl_query(otp_reports),
                  ltl_cost_df |-> ltl_cost_query(otp_reports)]
    /\ df = [connection |-> "absent", connecting |-> "absent", market_summary |-> {},
             data |-> {}, ltl_ok |-> FALSE]

\* the database becomes unreachable; an open connection is lost
DatabaseDown ==
    /\ app = "board" /\ pc \in SourceRested \cup SourceRunning
    /\ sidebar.db_up
    /\ sidebar' = [sidebar EXCEPT !.db_up = FALSE]
    /\ df' = [df EXCEPT !.connection = IF @ = "open" THEN "lost" ELSE @,
                        !.connecting = IF @ = "open" THEN "lost" ELSE @]
    /\ UNCHANGED <<app, pc, otp_reports>>

\* the database is reachable again
DatabaseUp ==
    /\ app = "board" /\ pc \in SourceRested \cup SourceRunning
    /\ ~sidebar.db_up
    /\ sidebar' = [sidebar EXCEPT !.db_up = TRUE]
    /\ UNCHANGED <<app, pc, otp_reports, df>>

\* the entry of get_market_summary in st.cache_data is 300 seconds old
TtlExpires ==
    /\ app = "board" /\ pc \in SourceRested
    /\ df.market_summary # {}
    /\ df' = [df EXCEPT !.market_summary = {}]
    /\ UNCHANGED <<app, pc, otp_reports, sidebar>>

\* lines 167-176 for what get_market_summary returned: the error of line 172
\* for None or a frame without rows, the KeyError of line 176 for a frame
\* without the cost column
source_page(result) ==
    IF result.is_none \/ result.rows = {} THEN "source_failed"
    ELSE IF ~result.cost_column THEN "source_exception"
    ELSE "source_shown"

\* the script runs (a rerun of the page).  With an entry in the cache, line
\* 168 returns it.  Without one, get_market_summary runs to the
\* get_db_connection() of its first execute_query: st.cache_resource returns
\* the value it holds, or get_db_connection runs and connects; a failed
\* connect makes it return None, which st.cache_resource keeps.
Rerun ==
    /\ app = "board" /\ pc \in SourceRested
    /\ IF df.market_summary # {}
       THEN /\ df' = [df EXCEPT !.data = df.market_summary]
            /\ pc' = source_page(CHOOSE result \in df.market_summary : TRUE)
       ELSE IF df.connection # "absent"
       THEN /\ df' = [df EXCEPT !.data = {}, !.ltl_ok = FALSE]
            /\ pc' = "source_first_query"
       ELSE IF connect(sidebar.db_up) = "none"
       THEN /\ df' = [df EXCEPT !.connection = "none", !.data = {}, !.ltl_ok = FALSE]
            /\ pc' = "source_first_query"
       ELSE /\ df' = [df EXCEPT !.connecting = connect(sidebar.db_up),
                                !.data = {}, !.ltl_ok = FALSE]
            /\ pc' = "source_connecting"
    /\ UNCHANGED <<app, otp_reports, sidebar>>

\* get_db_connection ends (lines 40-41) and st.cache_resource keeps what it
\* returns, for the life of the process
ReturnConnection ==
    /\ app = "board" /\ pc = "source_connecting"
    /\ df' = [df EXCEPT !.connection = is_connected(df.connecting), !.connecting = "absent"]
    /\ pc' = "source_first_query"
    /\ UNCHANGED <<app, otp_reports, sidebar>>

\* the first query of get_market_summary, ltl_df = execute_query(ltl_query)
\* of line 149, on the connection get_db_connection returned
FirstQuery ==
    /\ app = "board" /\ pc = "source_first_query"
    /\ df' = [df EXCEPT !.ltl_ok = execute_query(df.connection, sidebar.db_up)]
    /\ pc' = "source_querying"
    /\ UNCHANGED <<app, otp_reports, sidebar>>

\* get_market_summary goes on with its second query, ltl_cost_df =
\* execute_query(ltl_cost_query) of line 150, for which get_db_connection()
\* is answered by st.cache_resource, and lines 152-165; the value it returns
\* is cached, an exception it raises is not
FetchSummary ==
    /\ app = "board" /\ pc = "source_querying"
    /\ LET result == get_market_summary(df.ltl_ok,
                                        execute_query(df.connection, sidebar.db_up),
                                        sidebar.ltl_df, sidebar.ltl_cost_df)
       IN  IF result.raised # ""
           THEN /\ df' = [df EXCEPT !.ltl_ok = FALSE]
                /\ pc' = "source_exception"
           ELSE /\ df' = [df EXCEPT !.market_summary = {result}, !.data = {result},
                                    !.ltl_ok = FALSE]
                /\ pc' = source_page(result)
    /\ UNCHANGED <<app, otp_reports, sidebar>>

NextSource ==
    DatabaseDown \/ DatabaseUp \/ TtlExpires \/ Rerun \/ ReturnConnection \/ FirstQuery
        \/ FetchSummary

\* the page is rerun again and again, a call returns, a query is answered or
\* fails, and time passes
SpecSource ==
    /\ InitSource /\ [][NextSource]_vars
    /\ WF_vars(Rerun) /\ WF_vars(ReturnConnection) /\ WF_vars(FirstQuery)
    /\ WF_vars(FetchSummary) /\ WF_vars(TtlExpires)

(* C26: a data-source failure is not sticky: once a request was answered    *)
(* with a failure and the database is reachable again, a later request      *)
(* returns data (unless the database becomes unreachable once more).        *)
C26_FailureNotSticky ==
    (app = "board" /\ pc = "source_failed" /\ sidebar.db_up)
        ~> (pc = "source_shown" \/ ~sidebar.db_up)

-----------------------------------------------------------------------------
(* Trend analysis of the board-meeting report: lines 380-578 of            *)
(* src/financials_for_board_meeting/app.py, run on the frame `data` that    *)
(* get_market_summary returned.  The columns are float64 after line 400;    *)
(* the sums of whole numbers are written as integers, every quotient,       *)
(* mean and regression value is a float64.                                  *)

MaxMarkets == 11

\* head(10) of the two rankings
RankingCap == 10

\* quarter_map: the number of a quarter, NaN ({}) for 'Unknown'
quarter_map(quarter) ==
    IF quarter = "Q1" THEN {1}
    ELSE IF quarter = "Q2" THEN {2}
    ELSE IF quarter = "Q3" THEN {3}
    ELSE IF quarter = "Q4" THEN {4}
    ELSE {}

\* market_data.groupby('quarter').agg(sum) with profit and cost_per_piece
\* (lines 392-406), one row per quarter of the market's rows
quarterly_row(quarter, revenue, cost, pieces) ==
    [quarter |-> quarter, revenue |-> revenue, cost |-> cost, pieces |-> pieces,
     profit |-> revenue - cost,
     cost_per_piece |-> IF pieces > 0 THEN FloatDiv(cost, pieces) ELSE DFromInt(0)]

quarter_sums(quarter, group) ==
    quarterly_row(quarter, SumOver(group, [r \in group |-> r.revenue], 0),
                  SumOver(group, [r \in group |-> r.cost], 0),
                  SumOver(group, [r \in group |-> r.pieces], 0))

quarterly_of(market_data) ==
    {quarter_sums(q, {r \in market_data : r.quarter = q}) : q \in {r.quarter : r \in market_data}}

\* the rows of quarterly that have a q_num, in the order of the frame (groupby
\* sorts by quarter)
in_quarter_order(numbered) ==
    [i \in 1..Cardinality(numbered) |->
        CHOOSE r \in numbered :
            Cardinality({s \in numbered : COALESCE(quarter_map(s.quarter), 0)
                                            < COALESCE(quarter_map(r.quarter), 0)}) = i - 1]

RECURSIVE np_sum_from(_, _, _)
np_sum_from(a, i, acc) ==
    IF i > Len(a) THEN acc
    ELSE With(DAdd(acc, a[i]), LAMBDA sum : np_sum_from(a, i + 1, sum))

\* an array with its elements worked out
np_array(a) == a \o <<>>

\* the sum of a float64 array of fewer than 8 elements: one after the other
np_sum(a) == With(np_array(a), LAMBDA v : np_sum_from(v, 1, DFromInt(0)))

\* np.mean(a), Series.mean()
np_mean(a) == With(np_array(a), LAMBDA v : DDiv(np_sum(v), DFromInt(Len(v))))

\* What depends on the build of numpy: how its BLAS adds up the products of
\* np.dot (each product rounded and then added, or multiplied and added in
\* one rounding), and whether the pow of its C library rounds a square to
\* the nearest float64 or to the one on the other side of the square
Builds == [dot : {"multiply_add", "fused"}, pow : {"nearest", "faithful"}]

RECURSIVE np_dot_from(_, _, _, _, _)
np_dot_from(a, b, i, acc, build) ==
    IF i > Len(a) THEN acc
    ELSE With(IF build.dot = "fused" THEN DFma(a[i], b[i], acc)
              ELSE DAdd(acc, DMul(a[i], b[i])),
              LAMBDA sum : np_dot_from(a, b, i + 1, sum, build))

\* np.dot(a, b) of two float64 vectors
np_dot(a, b, build) == np_dot_from(a, b, 1, DFromInt(0), build)

\* ssxm, ssxym, _, ssym = np.cov(x, y, bias=1).flat: the means are taken off,
\* the products summed and multiplied by 1 / n
np_cov_of(dx, dy, f, build) ==
    [ssxm |-> DMul(np_dot(dx, dx, build), f),
     ssxym |-> DMul(np_dot(dx, dy, build), f),
     ssym |-> DMul(np_dot(dy, dy, build), f)]

np_cov(x, y, build) ==
    With2(np_mean(x), np_mean(y), LAMBDA xmean, ymean :
    With2(np_array([i \in 1..Len(x) |-> DSub(x[i], xmean)]),
          np_array([i \in 1..Len(y) |-> DSub(y[i], ymean)]), LAMBDA dx, dy :
    With(DDiv(DFromInt(1), DFromInt(Len(x))), LAMBDA f : np_cov_of(dx, dy, f, build))))

\* the r value of linregress before it is brought into [-1, 1]
r_ratio(ssxm, ssxym, ssym) ==
    IF DIsZero(ssxm) \/ DIsZero(ssym) THEN DFromInt(0)
    ELSE DDiv(ssxym, DSqrt(DMul(ssxm, ssym)))

\* r greater than 1.0 is 1.0, less than -1.0 is -1.0
clip_r(r) ==
    With(r, LAMBDA v :
        IF DLess(DFromInt(1), v) THEN DFromInt(1)
        ELSE IF DLess(v, DFromInt(0 - 1)) THEN DFromInt(0 - 1)
        ELSE v)

\* the slope and r value with the two variables exchanged
from_moments_x_on_y(ssxm, ssxym, ssym) ==
    [slope |-> IF DIsZero(ssym) THEN DFromInt(0) ELSE DDiv(ssxym, ssym),
     r_value |-> clip_r(r_ratio(ssxm, ssxym, ssym))]

\* slope = ssxym / ssxm and r = ssxym / sqrt(ssxm * ssym) of linregress, r
\* being 0.0 when x or y is constant (the x values here are distinct quarters)
from_moments(ssxm, ssxym, ssym) ==
    [slope |-> DDiv(ssxym, ssxm),
     r_value |-> clip_r(r_ratio(ssxm, ssxym, ssym))]

moments_of(cov) == With(cov, LAMBDA c : from_moments(c.ssxm, c.ssxym, c.ssym))

\* stats.linregress(x, y): slope and r_value
linregress(x, y, build) ==
    With2(np_array(x), np_array(y), LAMBDA xs, ys : moments_of(np_cov(xs, ys, build)))

\* r_value ** 2: pow(r_value, 2.0) of the C library
r_squared(r_value, build) ==
    IF build.pow = "nearest" THEN DMul(r_value, r_value) ELSE DSquareFar(r_value)

\* the dictionary appended to trends (lines 437-447)
trend_entry(market, quarterly, profit, cpp, build) ==
    [market |-> market,
     quarters |-> Len(quarterly),
     total_revenue |-> SumOver(1..Len(quarterly), [i \in 1..Len(quarterly) |-> quarterly[i].revenue], 0),
     total_profit |-> SumOver(1..Len(quarterly), [i \in 1..Len(quarterly) |-> quarterly[i].profit], 0),
     avg_cost_per_piece |->
        np_mean([i \in 1..Len(quarterly) |-> quarterly[i].cost_per_piece]),
     profit_slope |-> profit.slope,
     profit_r2 |-> r_squared(profit.r_value, build),
     cpp_slope |-> cpp.slope,
     cpp_r2 |-> r_squared(cpp.r_value, build)]

\* the two regressions over the quarters that have a number (lines 420-431)
regressions(market, quarterly, x, build) ==
    With2(linregress(x, [i \in 1..Len(quarterly) |-> DFromInt(quarterly[i].profit)], build),
          linregress(x, [i \in 1..Len(quarterly) |-> quarterly[i].cost_per_piece], build),
          LAMBDA profit, cpp : trend_entry(market, quarterly, profit, cpp, build))

trend_row(market, quarterly, build) ==
    With(np_array(quarterly), LAMBDA q :
        regressions(market, q,
                    np_array([i \in 1..Len(q) |->
                                 DFromInt(COALESCE(quarter_map(q[i].quarter), 0))]),
                    build))

\* the loop body with the rows of no quarter counted among the three
market_trend_unknown_counted(market, quarterly, build) ==
    IF Cardinality(quarterly) < 3 THEN {}
    ELSE {trend_row(market,
                    in_quarter_order({r \in quarterly : quarter_map(r.quarter) # {}}), build)}

\* one pass of the loop of calculate_market_trends: the rows appended for a
\* market (none when a check of lines 409 and 416 says continue)
numbered_trend(market, numbered, build) ==
    IF Cardinality(numbered) < 3 THEN {}
    ELSE {trend_row(market, in_quarter_order(numbered), build)}

market_trend(market, quarterly, build) ==
    IF Cardinality(quarterly) < 3 THEN {}
    ELSE numbered_trend(market, {r \in quarterly : quarter_map(r.quarter) # {}}, build)

\* the pass of the loop for the rows of one market (lines 390-447)
market_data_trend(market_data, build) ==
    UNION {market_trend(market, quarterly_of(market_data), build)
             : market \in {r.market : r \in market_data}}

(* The frames the trend analysis is run on: market k has the rows of one    *)
(* series, its revenue and cost multiplied by TrendScale[k].                *)

MarketNames ==
    <<<<"A", "T", "L">>, <<"B", "O", "S">>, <<"D", "C", "A">>, <<"D", "E", "N">>,
      <<"D", "F", "W">>, <<"E", "W", "R">>, <<"L", "A", "X">>, <<"M", "I", "A">>,
      <<"O", "R", "D">>, <<"P", "H", "X">>, <<"S", "E", "A">>, <<"S", "F", "O">>>>

TrendScale == <<1, 1, 2, 3, 4, 5, 6, 7, 8, 9, 10, 11>>

QuarterRow(quarter, revenue, cost, pieces) ==
    [quarter |-> quarter, revenue |-> revenue, cost |-> cost, pieces |-> pieces]

TrendSeries ==
    << \* profit 1, 2, 3, 4 over four quarters; cost per piece 4, 1, 3, 0, whose
       \* R-squared is 1/2 but for rounding
       {QuarterRow("Q1", 5, 4, 1), QuarterRow("Q2", 3, 1, 1),
        QuarterRow("Q3", 6, 3, 1), QuarterRow("Q4", 4, 0, 1)},
       \* profit 4, 3, 1 and cost per piece 1, 2, 4 in quarters 1, 2, 4, and rows
       \* without a quarter
       {QuarterRow("Q1", 5, 1, 1), QuarterRow("Q2", 5, 2, 1), QuarterRow("Q4", 5, 4, 1),
        QuarterRow("Unknown", 9, 1, 0)},
       \* two quarters and rows without a quarter
       {QuarterRow("Q1", 2, 1, 1), QuarterRow("Q2", 3, 1, 1), QuarterRow("Unknown", 9, 1, 1)},
       \* profit 0, 3, 1, 4, whose R-squared is 1/2 but for rounding; cost per
       \* piece 1, 1, 1/2 and 0 in a quarter without pieces
       {QuarterRow("Q1", 1, 1, 1), QuarterRow("Q2", 4, 1, 1),
        QuarterRow("Q3", 2, 1, 2), QuarterRow("Q4", 5, 1, 0)},
       \* profit 1, 2, 3 and cost per piece 3, 2, 1 over three quarters
       {QuarterRow("Q1", 4, 3, 1), QuarterRow("Q2", 4, 2, 1), QuarterRow("Q3", 4, 1, 1)} >>

\* the rows of data of market k with the series s
MarketRows(k, s) ==
    {[market |-> MarketNames[k], quarter |-> r.quarter, shipments |-> 1,
      revenue |-> r.revenue * TrendScale[k], cost |-> r.cost * TrendScale[k],
      pieces |-> r.pieces] : r \in TrendSeries[s]}

\* the rows one market can have in these frames
FrameMarkets == {MarketRows(k, s) : k \in 1..Len(MarketNames), s \in 1..Len(TrendSeries)}

\* market_data_trend of the rows of markets, as a table
FrameTrends(markets) ==
    [market_data \in markets, build \in Builds |-> market_data_trend(market_data, build)]
    @@ <<>>

\* the pass of the loop for the rows market_data: looked up in the table that
\* the trend analysis starts with, for the rows that are in it
loop_pass(market_data, build) ==
    IF market_data \in FrameMarkets THEN sidebar.trends[market_data, build]
    ELSE market_data_trend(market_data, build)

\* calculate_market_trends(data)
calculate_market_trends(data, build) ==
    UNION {loop_pass({r \in data : r.market = market}, build) : market \in {r.market : r \in data}}

\* min_r2 = 0.5
min_r2 == DDiv(DFromInt(1), DFromInt(2))

\* r2 >= min_r2
AtLeastMinR2(r2) == DLeq(min_r2, r2)

\* slope * r2 of two floats
FloatProduct(a, b) == DMul(a, b)

\* abs(slope)
FloatAbs(a) == DMagnitude(a)

\* slope > 0, slope < 0
Positive(a) == DLess(DFromInt(0), a)
Negative(a) == DLess(a, DFromInt(0))

WithScore(row, score) ==
    [market |-> row.market, profit_slope |-> row.profit_slope, profit_r2 |-> row.profit_r2,
     total_profit |-> row.total_profit, cpp_slope |-> row.cpp_slope, cpp_r2 |-> row.cpp_r2,
     avg_cost_per_piece |-> row.avg_cost_per_piece, consistency_score |-> score]

RECURSIVE MaxScore(_, _)
\* the largest consistency_score of the rows, or best if that is larger
MaxScore(rows, best) ==
    IF rows = {} THEN best
    ELSE With(CHOOSE x \in rows : TRUE, LAMBDA r :
         With(IF DLess(best, r.consistency_score) THEN r.consistency_score ELSE best,
              LAMBDA larger : MaxScore(rows \ {r}, larger)))

ScoredAt(rows, best) == {r \in rows : r.consistency_score = best}

\* the rows of the largest consistency_score (rows is not empty)
TopScored(rows) ==
    ScoredAt(rows, MaxScore(rows, (CHOOSE x \in rows : TRUE).consistency_score))

RECURSIVE SortedHead(_, _)
\* sort_values('consistency_score', ascending=False).head(n): the listings it
\* can give, rows of equal score in any order
SortedHead(rows, n) ==
    IF rows = {} \/ n = 0 THEN {<<>>}
    ELSE UNION {{<<r>> \o rest : rest \in SortedHead(rows \ {r}, n - 1)} : r \in TopScored(rows)}

\* profit_growers without the condition on profit_r2
profit_growers_any_r2(trends_df) ==
    SortedHead({WithScore(t, FloatProduct(t.profit_slope, t.profit_r2)) :
                  t \in {x \in trends_df : Positive(x.profit_slope)}},
               RankingCap)

\* profit_growers (lines 465-471)
profit_growers(trends_df) ==
    SortedHead({WithScore(t, FloatProduct(t.profit_slope, t.profit_r2)) :
                  t \in {x \in trends_df : Positive(x.profit_slope) /\ AtLeastMinR2(x.profit_r2)}},
               RankingCap)

\* cost_reducers (lines 487-493)
cost_reducers(trends_df) ==
    SortedHead({WithScore(t, FloatProduct(FloatAbs(t.cpp_slope), t.cpp_r2)) :
                  t \in {x \in trends_df : Negative(x.cpp_slope) /\ AtLeastMinR2(x.cpp_r2)}},
               RankingCap)

\* the series of the market added last
LastSeries(data, k) ==
    IF k = 0 THEN 1
    ELSE CHOOSE s \in 1..Len(TrendSeries) :
            MarketRows(k, s) = {r \in data : r.market = MarketNames[k]}

InitTrend ==
    /\ app = "trend"
    /\ pc = "data"
    /\ otp_reports = <<>>
    /\ sidebar = [trends |-> FrameTrends(FrameMarkets)]
    /\ df = [data |-> {}]

\* the rows of one more market are in the frame
AddMarket ==
    /\ app = "trend" /\ pc = "data"
    /\ LET k == Cardinality({r.market : r \in df.data})
       IN  /\ k < MaxMarkets /\ k < Len(MarketNames)
           /\ \E s \in LastSeries(df.data, k)..Len(TrendSeries) :
                df' = [data |-> df.data \cup MarketRows(k + 1, s)]
    /\ UNCHANGED <<app, pc, otp_reports, sidebar>>

\* lines 453-575 for the trends calculated
ShowTrends(trends_df) ==
    IF trends_df = {}
    THEN /\ pc' = "trend_warning"
         /\ df' = [data |-> df.data, trends_df |-> trends_df]
    ELSE /\ pc' = "trend_shown"
         /\ \E growers \in profit_growers(trends_df) :
            \E reducers \in cost_reducers(trends_df) :
                df' = [data |-> df.data, trends_df |-> trends_df,
                       profit_growers |-> growers, cost_reducers |-> reducers]

\* the trend analysis section runs: lines 380-578, on the numpy of some build
TrendRun ==
    /\ app = "trend" /\ pc = "data"
    /\ \E trends_df \in {calculate_market_trends(df.data, build) : build \in Builds} :
          ShowTrends(trends_df)
    /\ UNCHANGED <<app, otp_reports, sidebar>>

NextTrend == AddMarket \/ TrendRun

SpecTrend == InitTrend /\ [][NextTrend]_vars

-----------------------------------------------------------------------------
(* Properties of the trend analysis *)

TrendDone == app = "trend" /\ pc \in {"trend_shown", "trend_warning"}

TrendShown == app = "trend" /\ pc = "trend_shown"

RecognizedQuarters == {"Q1", "Q2", "Q3", "Q4"}

\* the rows of a market in data whose quarter is one of Q1..Q4
RecognizedRows(market) ==
    {r \in df.data : r.market = market /\ r.quarter \in RecognizedQuarters}

\* the market has data in at least 3 distinct recognized quarters
Eligible(market) == Cardinality({r.quarter : r \in RecognizedRows(market)}) >= 3

RankedMarkets(ranking) == {ranking[n].market : n \in 1..Len(ranking)}

(* C18: calculate_market_trends emits a trend row for a market if and only  *)
(* if the market has data in at least 3 distinct quarters among Q1..Q4;     *)
(* 'Unknown' rows do not count, and a market with fewer than 3 recognized   *)
(* quarters is in neither the trend output nor a ranking.                   *)
C18_TrendIffThreeRecognizedQuarters ==
    /\ TrendDone =>
          /\ \A market \in {r.market : r \in df.data} :
                (\E t \in df.trends_df : t.market = market) <=> Eligible(market)
          /\ \A t \in df.trends_df : \E r \in df.data : r.market = t.market
    /\ TrendShown =>
          \A market \in RankedMarkets(df.profit_growers) \cup RankedMarkets(df.cost_reducers) :
              Eligible(market)

\* trends are shown for a frame with a market of two quarters and 'Unknown'
\* rows, which has no trend row, and a market of three quarters and 'Unknown'
\* rows, which has one
C18_Witness ==
    /\ TrendShown
    /\ \E market \in {r.market : r \in df.data} :
          /\ Cardinality({r.quarter : r \in {x \in df.data : x.market = market}}) = 3
          /\ ~Eligible(market)
          /\ \A t \in df.trends_df : t.market # market
    /\ \E market \in {r.market : r \in df.data} :
          /\ \E r \in df.data : r.market = market /\ r.quarter = "Unknown"
          /\ \E t \in df.trends_df : t.market = market /\ t.quarters = 3

\* the profit of the market is a + d * (number of the quarter) in every
\* recognized quarter, and there are at least 3 of them
LinearProfit(market, d) ==
    /\ Eligible(market)
    /\ \A r, s \in RecognizedRows(market) :
          (r.revenue - r.cost) - (s.revenue - s.cost)
              = d * (COALESCE(quarter_map(r.quarter), 0) - COALESCE(quarter_map(s.quarter), 0))

\* the differences of profit between two rows of the market
ProfitSteps(market) ==
    {(r.revenue - r.cost) - (s.revenue - s.cost) : r, s \in RecognizedRows(market)}

\* the markets with linear profit in the frame, each with its difference d > 0
LinearMarkets ==
    {<<market, d>> \in UNION {{<<m, x>> : x \in {y \in ProfitSteps(m) : y > 0}}
                                : m \in {r.market : r \in df.data}} :
        LinearProfit(market, d)}

\* the markets of the trend output that pass the filter of profit_growers
Growing ==
    {t \in df.trends_df : DLess(DFromInt(0), t.profit_slope) /\ DLeq(min_r2, t.profit_r2)}

\* the markets of the trend output that pass the filter of cost_reducers
Reducing ==
    {t \in df.trends_df : DLess(t.cpp_slope, DFromInt(0)) /\ DLeq(min_r2, t.cpp_r2)}

\* the market's row is in the growth filter, and in the ranking when the cap
\* leaves room
GrowingAndRanked(t, growing) ==
    /\ t \in growing
    /\ (TrendShown /\ Cardinality(growing) <= RankingCap)
          => t.market \in RankedMarkets(df.profit_growers)

(* C19 as stated: for a market whose quarterly profit is exactly linear in  *)
(* the quarter number with difference d > 0 over at least 3 quarters, the   *)
(* trend row has profit slope d and R-squared 1, and the market passes the  *)
(* filter of the growth ranking (it is listed there when the cap leaves     *)
(* room).                                                                   *)
C19_LinearSeriesSlopeAndFit ==
    TrendDone =>
        \E growing \in {Growing} :
            \A p \in LinearMarkets :
                \E t \in df.trends_df :
                    /\ t.market = p[1]
                    /\ IsNumber(t.profit_slope, p[2])
                    /\ IsNumber(t.profit_r2, 1)
                    /\ GrowingAndRanked(t, growing)

\* 2^-50, four units in the last place of a float64 between 1 and 2
RoundingError == DMake(FALSE, <<1>>, 0 - 50)

\* the float x is the whole number v > 0 to within the rounding error
NearNumber(x, v) ==
    DLeq(DMagnitude(DSub(x, DFromInt(v))), DMul(DFromInt(v), RoundingError))

(* C19, amended: for such a market the trend row has profit slope d and     *)
(* R-squared 1 to within float64 rounding (a relative error of at most      *)
(* 2^-50, R-squared never above 1), exactly d and 1 when the market has all *)
(* four quarters, and the market passes the filter of the growth ranking    *)
(* (it is listed there when the cap leaves room).                           *)
C19_LinearSeriesSlopeWithinRounding ==
    TrendDone =>
        \E growing \in {Growing} :
            \A p \in LinearMarkets :
                \E t \in df.trends_df :
                    /\ t.market = p[1]
                    /\ NearNumber(t.profit_slope, p[2])
                    /\ NearNumber(t.profit_r2, 1)
                    /\ DLeq(t.profit_r2, DFromInt(1))
                    /\ t.quarters = 4 => IsNumber(t.profit_slope, p[2]) /\ IsNumber(t.profit_r2, 1)
                    /\ GrowingAndRanked(t, growing)

\* trends are shown for a market with profit 7, 14, 21 in quarters 1, 2 and 3
\* (d = 7), whose row has a slope that is not 7 and R-squared 1 and is in the
\* growth ranking, and for a market with profit 1, 2, 3, 4 whose slope is 1
C19_Witness ==
    /\ TrendShown
    /\ \E market \in {r.market : r \in df.data} :
          /\ {r.quarter : r \in RecognizedRows(market)} = {"Q1", "Q2", "Q3"}
          /\ LinearProfit(market, 7)
          /\ \E n \in 1..Len(df.profit_growers) :
                /\ df.profit_growers[n].market = market
                /\ ~IsNumber(df.profit_growers[n].profit_slope, 7)
                /\ IsNumber(df.profit_growers[n].profit_r2, 1)
    /\ \E market \in {r.market : r \in df.data} :
          /\ {r.quarter : r \in RecognizedRows(market)} = RecognizedQuarters
          /\ LinearProfit(market, 1)
          /\ \E n \in 1..Len(df.profit_growers) :
                /\ df.profit_growers[n].market = market
                /\ IsNumber(df.profit_growers[n].profit_slope, 1)

\* score = |slope| * R-squared of a row, by the ranking's columns
Score(t, slope, r2) == DMul(DMagnitude(t[slope]), t[r2])

\* the scores listed do not increase, and none of the scores left out is
\* above the last one listed
ScoresDescend(scores, left_out) ==
    /\ \A n \in 1..(Len(scores) - 1) : DLeq(scores[n + 1], scores[n])
    /\ \A x \in left_out : Len(scores) > 0 /\ DLeq(x, scores[Len(scores)])

\* a ranking holds distinct markets from `passing` with their trend values,
\* at most RankingCap of them, in non-increasing order of score, and no
\* market left out has a strictly higher score than one kept
WellRanked(ranking, passing, slope, r2) ==
    /\ Len(ranking) <= RankingCap
    /\ \A n \in 1..Len(ranking) :
          /\ \E t \in passing : /\ t.market = ranking[n].market
                                /\ t[slope] = ranking[n][slope]
                                /\ t[r2] = ranking[n][r2]
          /\ \A m \in 1..Len(ranking) : m < n => ranking[m].market # ranking[n].market
    /\ ScoresDescend([n \in 1..Len(ranking) |-> Score(ranking[n], slope, r2)],
                     {Score(t, slope, r2) :
                        t \in {x \in passing : x.market \notin RankedMarkets(ranking)}})

(* C20: each ranking holds only eligible markets that pass its filter       *)
(* (profit slope > 0 and R-squared >= 0.5; cost-per-piece slope < 0 and     *)
(* R-squared >= 0.5), in non-increasing order of |slope| x R-squared, at    *)
(* most 10 of them, and no market the cap leaves out has a strictly higher  *)
(* score than a market kept.                                                *)
C20_RankingsFilteredOrderedCapped ==
    TrendShown =>
        /\ WellRanked(df.profit_growers, Growing, "profit_slope", "profit_r2")
        /\ WellRanked(df.cost_reducers, Reducing, "cpp_slope", "cpp_r2")
        /\ \A market \in RankedMarkets(df.profit_growers) \cup RankedMarkets(df.cost_reducers) :
              Cardinality({r.quarter : r \in RecognizedRows(market)}) >= 3

\* eleven markets pass the growth filter: ten are ranked and one is left out;
\* the cost ranking holds two markets or more; a market whose cost per piece
\* goes down is left out of the cost filter for its R-squared
C20_Witness ==
    /\ TrendShown
    /\ Cardinality(Growing) = RankingCap + 1
    /\ Len(df.profit_growers) = RankingCap
    /\ Len(df.cost_reducers) >= 2
    /\ \E t \in df.trends_df : DLess(t.cpp_slope, DFromInt(0)) /\ t \notin Reducing

-----------------------------------------------------------------------------
(* All reports over the one otp_reports table: `app` names the report *)

Init == InitLane \/ InitLoc \/ InitOtp \/ InitKith \/ InitBoard \/ InitTrend \/ InitSource \/ InitSession

Next == NextLane \/ NextLoc \/ NextOtp \/ NextKith \/ NextBoard \/ NextTrend \/ NextSource \/ NextSession

Spec == Init /\ [][Next]_vars

=============================================================================
